---- MODULE Spec2Model ----
(***************************************************************************)
(* Model of pv-zone-migrator: the migration engine                         *)
(* (internal/migrator/migrator.go), the cluster gateway operations it and  *)
(* the command use (internal/k8s/client.go), the migrate command           *)
(* (cmd/migrate.go) and the confirmation UI (internal/ui/model.go).        *)
(*                                                                         *)
(* Names are sequences of one-character strings, so that ParsePVCName     *)
(* is computed as the code computes it.  Times are modelled by whether    *)
(* the timestamp has been set (TRUE) or is the zero time (FALSE).          *)
(***************************************************************************)
EXTENDS Integers, Sequences, FiniteSets, TLC

(***************************************************************************)
(* Bounds                                                                  *)
(***************************************************************************)
MaxTasks == 2
MaxConc == 2
MaxRuns == 2
RerunTasks == 2
ReaderTasks == 1
PlanTasks == 2
MaxNameLen == 5
MaxGi == 3
ScaleReplicas == 2
MaxScaleUps == 2
LiveTasks == 2
CmdTasks == 1
UITasks == 1
LockTasks == 2
MaxReplicas == 1
MaxCfgNamespaces == 2
MaxCfgPVCs == 2

(***************************************************************************)
(* Input domains                                                           *)
(***************************************************************************)
NameAX == <<"a", "/", "x">>
NameAY == <<"a", "/", "y">>
NameBX == <<"b", "/", "x">>
NameX == <<"x">>
TaskUniverse == <<NameAX, NameAY, NameBX, NameX>>

\* Task lists: prefixes of the universe, and lists that repeat one entry
\* (nothing in New or Run rejects repeated entries).
PVCLists ==
  {SubSeq(TaskUniverse, 1, n) : n \in 0..MaxTasks}
    \cup {[k \in 1..n |-> NameAX] : n \in 2..MaxTasks}

TargetZone == "z1"
Zones == {"z1", "z2"}
SnapshotProgressVals == {50, 100}

NoErr == <<>>
ErrCanceled == <<"context canceled">>
GetPVCInfoErrs == {"failed to get PVC", "is not bound to any PV"}

(***************************************************************************)
(* Step                                                                    *)
(***************************************************************************)
StepPending == "Pending"
StepGetInfo == "GetInfo"
StepSkipped == "Skipped"
StepSnapshot == "Snapshot"
StepWaitSnapshot == "WaitSnapshot"
StepCreateVolume == "CreateVolume"
StepWaitVolume == "WaitVolume"
StepCleanup == "Cleanup"
StepCreatePV == "CreatePV"
StepCreatePVC == "CreatePVC"
StepDone == "Done"
StepFailed == "Failed"

TerminalSteps == {StepDone, StepSkipped, StepFailed}

(***************************************************************************)
(* ParsePVCName: strings.SplitN(fullName, "/", 2)                          *)
(***************************************************************************)
\* IndexOfSlash that finds the last separator
IndexOfSlash_Last(s, k) ==
  LET S == {j \in k..Len(s) : s[j] = "/"} IN
  IF S = {} THEN 0 ELSE CHOOSE j \in S : \A l \in S : l <= j

RECURSIVE IndexOfSlash(_, _)
IndexOfSlash(s, k) ==
  IF k > Len(s) THEN 0
  ELSE IF s[k] = "/" THEN k
  ELSE IndexOfSlash(s, k + 1)

ParsePVCName(fullName) ==
  LET k == IndexOfSlash(fullName, 1) IN
  IF k > 0
    THEN [namespace |-> SubSeq(fullName, 1, k - 1),
          pvcName |-> SubSeq(fullName, k + 1, Len(fullName))]
    ELSE [namespace |-> <<"d", "e", "f", "a", "u", "l", "t">>,
          pvcName |-> fullName]

Range(s) == {s[k] : k \in DOMAIN s}

(***************************************************************************)
(* The cluster the command works on                                        *)
(***************************************************************************)
NsA == <<"a">>
NsB == <<"b">>

\* cfg.Namespaces: the claims of namespace a are listed, those of b are
\* discovered
CfgNamespaces ==
  <<[Name |-> NsA, PVCs |-> <<NameX>>], [Name |-> NsB, PVCs |-> <<>>]>>

\* namespaces (cfg.GetNamespaceNames)
namespaces == [k \in DOMAIN CfgNamespaces |-> CfgNamespaces[k].Name]

\* claims that exist in a namespace, in list order
ClusterPVCs(ns) ==
  IF ns = NsA THEN <<NameX>> ELSE SubSeq(<<NameX, <<"y">>>>, 1, CmdTasks - 1)

\* Deployments, then StatefulSets, of a namespace in list order
WorkloadsIn(ns) ==
  IF ns = NsA
    THEN <<[Kind |-> "Deployment", Name |-> "web"],
           [Kind |-> "StatefulSet", Name |-> "db"]>>
    ELSE <<[Kind |-> "Deployment", Name |-> "api"]>>

Key(ns, w) == [Namespace |-> ns, Kind |-> w.Kind, Name |-> w.Name]

Workloads ==
  UNION {{Key(namespaces[k], WorkloadsIn(namespaces[k])[j]) :
            j \in DOMAIN WorkloadsIn(namespaces[k])} : k \in DOMAIN namespaces}

\* ArgoCD applications with their destination namespace and automated policy
ArgoApps ==
  <<[Name |-> "app1", Namespace |-> "argocd", dest |-> NsA, policy |-> "p1"],
    [Name |-> "app2", Namespace |-> "argocd", dest |-> NsB, policy |-> "p2"]>>

AppKey(a) == [Name |-> a.Name, Namespace |-> a.Namespace]

NoPolicy == ""

(***************************************************************************)
(* k8s.Client operations on the cluster.  A call that loops over items      *)
(* takes the position f at which the cluster fails it (0: never).            *)
(***************************************************************************)
RECURSIVE Flatten(_)
Flatten(ss) == IF ss = <<>> THEN <<>> ELSE Head(ss) \o Flatten(Tail(ss))

\* GetWorkloadStatus: the workloads with replicas > 0
GetWorkloadStatus(ns, reps) ==
  LET all == [j \in DOMAIN WorkloadsIn(ns) |->
                [Kind |-> WorkloadsIn(ns)[j].Kind,
                 Name |-> WorkloadsIn(ns)[j].Name,
                 Replicas |-> reps[Key(ns, WorkloadsIn(ns)[j])]]]
      Positive(w) == w.Replicas > 0
  IN SelectSeq(all, Positive)

\* failure points of ScaleDownWorkloads: none, the list of the Deployments,
\* the list of the StatefulSets, or the update of the f-th running workload
FailNone == 0
FailListDeployments == 0 - 1
FailListStatefulSets == 0 - 2

ScaleDownFailures(ns, reps) ==
  {FailNone, FailListDeployments, FailListStatefulSets}
    \cup (1..Len(GetWorkloadStatus(ns, reps)))

\* ScaleDownWorkloads that records a workload after it was set to zero
ScaleDownWorkloads_RecordAfterZero(ns, reps, f) ==
  LET running == GetWorkloadStatus(ns, reps)
      appended == IF f > 0 THEN SubSeq(running, 1, f)
                  ELSE IF f = FailNone THEN running ELSE <<>>
      updated == IF f > 0 THEN SubSeq(running, 1, f - 1) ELSE appended
      zeroed == {Key(ns, updated[j]) : j \in DOMAIN updated}
  IN [workloads |-> [j \in DOMAIN appended |-> [appended[j] EXCEPT !.Replicas = 0]],
      err |-> f # FailNone,
      replicas |-> [w \in DOMAIN reps |-> IF w \in zeroed THEN 0 ELSE reps[w]],
      log |-> {<<"ScaleDown", w>> : w \in zeroed}]

\* ScaleDownWorkloads: every workload with replicas > 0 is appended to the
\* result and then updated to 0; the first failure returns what was
\* appended so far together with the error.
ScaleDownWorkloads(ns, reps, f) ==
  LET running == GetWorkloadStatus(ns, reps)
      IsDeployment(w) == w.Kind = "Deployment"
      deployments == SelectSeq(running, IsDeployment)
      appended ==
        IF f = FailNone THEN running
        ELSE IF f = FailListDeployments THEN <<>>
        ELSE IF f = FailListStatefulSets THEN deployments
        ELSE SubSeq(running, 1, f)
      updated ==
        IF f \in {FailNone, FailListDeployments, FailListStatefulSets}
          THEN appended
          ELSE SubSeq(running, 1, f - 1)
      zeroed == {Key(ns, updated[j]) : j \in DOMAIN updated}
  IN [workloads |-> appended,
      err |-> f # FailNone,
      replicas |-> [w \in DOMAIN reps |-> IF w \in zeroed THEN 0 ELSE reps[w]],
      log |-> {<<"ScaleDown", w>> : w \in zeroed}]

\* ScaleUpWorkloads: each workload is fetched and updated to its recorded
\* replica count; the first failure returns the error.
ScaleUpWorkloads(ns, workloads, reps, f) ==
  LET tried == IF f = 0 THEN workloads ELSE SubSeq(workloads, 1, f)
      updated == IF f = 0 THEN workloads ELSE SubSeq(workloads, 1, f - 1)
      Recorded(w) ==
        CHOOSE j \in DOMAIN updated : Key(ns, updated[j]) = w
  IN [err |-> f # 0,
      replicas |->
        [w \in DOMAIN reps |->
           IF \E j \in DOMAIN updated : Key(ns, updated[j]) = w
             THEN updated[Recorded(w)].Replicas ELSE reps[w]],
      log |-> {<<"ScaleUpAttempt", Key(ns, tried[j])>> : j \in DOMAIN tried}
                \cup {<<"ScaleUp", Key(ns, updated[j])>> : j \in DOMAIN updated}]

\* FindArgoCDAppsForNamespace: the applications that target the namespace
\* and have an automated sync policy, with that policy
FindArgoCDAppsForNamespace(ns, sync) ==
  LET Found(a) == a.dest = ns /\ sync[AppKey(a)] # NoPolicy
      found == SelectSeq(ArgoApps, Found)
  IN [j \in DOMAIN found |->
        [Name |-> found[j].Name, Namespace |-> found[j].Namespace,
         AutoSyncPolicy |-> sync[AppKey(found[j])]]]

\* DisableArgoCDAutoSync: removes the automated policy of each application;
\* the first failure returns the error.
DisableArgoCDAutoSync(apps, sync, f) ==
  LET updated == IF f = 0 THEN apps ELSE SubSeq(apps, 1, f - 1)
      keys == {AppKey(updated[j]) : j \in DOMAIN updated}
  IN [err |-> f # 0,
      autoSync |-> [a \in DOMAIN sync |-> IF a \in keys THEN NoPolicy ELSE sync[a]],
      log |-> {<<"Disable", a>> : a \in keys}]

\* EnableArgoCDAutoSync: restores the recorded automated policy of each
\* application; the first failure returns the error.
EnableArgoCDAutoSync(apps, sync, f) ==
  LET tried == IF f = 0 THEN apps ELSE SubSeq(apps, 1, f)
      updated == IF f = 0 THEN apps ELSE SubSeq(apps, 1, f - 1)
      Recorded(a) == CHOOSE j \in DOMAIN updated : AppKey(updated[j]) = a
  IN [err |-> f # 0,
      autoSync |->
        [a \in DOMAIN sync |->
           IF \E j \in DOMAIN updated : AppKey(updated[j]) = a
             THEN updated[Recorded(a)].AutoSyncPolicy ELSE sync[a]],
      log |-> {<<"EnableAttempt", AppKey(tried[j])>> : j \in DOMAIN tried}
                \cup {<<"Enable", AppKey(updated[j])>> : j \in DOMAIN updated}]

(***************************************************************************)
(* State                                                                   *)
(***************************************************************************)
VARIABLES
  config,     \* Migrator.config
  statuses,   \* Migrator.statuses: full name -> PVCStatus
  done,       \* Migrator.done
  runpc,      \* position of Run: "idle", "waiting" (wg.Wait), "returned"
  pc,         \* position of the goroutine launched for PVCList[i]
  local,      \* local variables of migratePVC of goroutine i
  semaphore,  \* number of elements in the semaphore channel of Run
  cancelled,  \* ctx.Done() is closed
  calls,      \* gateway operations invoked so far: <<operation, i>>
  created,    \* resources created by successful gateway calls: <<kind, i>>
  deleted,    \* goroutines whose CleanupResources has deleted the old claim and PV
  zone,       \* the cloud: zone of the volume backing each claim
  runs,       \* number of engines constructed so far
  skippedBefore, \* claims that ended Skipped in the previous engine's Run
  cmdpc,      \* position of runMigrate ("engine": the engine is used alone)
  flags,      \* scaleMode, planOnly, skipArgoCD
  replicas,   \* the cluster: spec.replicas of each Deployment and StatefulSet
  autoSync,   \* the cluster: spec.syncPolicy.automated of each ArgoCD app
  allPVCs,    \* result of discoverPVCs
  mc,         \* migrationContext: argoCDApps, scaledWorkloads, workloadInfoByNS
  idx,        \* loop index of handleAutoScaling and restoreWorkloads
  cmdlog,     \* mutating cluster calls and completed waits of the command: <<operation, target>>
  ui,         \* ui.Model and the pending command and message of the program
  result,     \* how the process ended: "", "nil", "exit1" or the error returned
  reader,     \* a caller of GetStatuses and the map it was handed
  plan,       \* the MigrationPlan GeneratePlan returned last, with its calls
  input,      \* argument of a function applied on its own
  output,     \* what the function returned for input
  mu          \* Migrator.mu: its holder, and each goroutine's place in migratePVC

auxVars == <<reader, plan, input, output, mu>>

engineVars ==
  <<config, statuses, done, runpc, pc, local, semaphore, cancelled, calls,
    created, deleted, zone, runs, skippedBefore, auxVars>>

cmdVars ==
  <<cmdpc, flags, replicas, autoSync, allPVCs, mc, idx, cmdlog, ui, result>>

vars == <<engineVars, cmdVars>>

world == <<zone, runs, skippedBefore, cmdVars, auxVars>>

Runners == DOMAIN config.PVCList

Name(i) == config.PVCList[i]

\* New
\* NewStatuses that does not parse the names
NewStatuses_NameNotParsed(pvcList) ==
  [pvc \in Range(pvcList) |->
     [Name |-> pvc,
      Namespace |-> <<"d", "e", "f", "a", "u", "l", "t">>,
      PVCName |-> pvc,
      Step |-> StepPending,
      Progress |-> 0,
      Error |-> NoErr,
      StartTime |-> FALSE,
      EndTime |-> FALSE,
      SnapshotID |-> "",
      NewVolumeID |-> "",
      OldVolumeID |-> "",
      PVName |-> "",
      Capacity |-> "",
      CurrentZone |-> ""]]

NewStatuses(pvcList) ==
  [pvc \in Range(pvcList) |->
     [Name |-> pvc,
      Namespace |-> ParsePVCName(pvc).namespace,
      PVCName |-> ParsePVCName(pvc).pvcName,
      Step |-> StepPending,
      Progress |-> 0,
      Error |-> NoErr,
      StartTime |-> FALSE,
      EndTime |-> FALSE,
      SnapshotID |-> "",
      NewVolumeID |-> "",
      OldVolumeID |-> "",
      PVName |-> "",
      Capacity |-> "",
      CurrentZone |-> ""]]

NoLocal == [az |-> "", state |-> ""]

NoModel ==
  [generatingPlan |-> FALSE, planError |-> NoErr, confirmed |-> FALSE,
   started |-> FALSE, quitting |-> FALSE, cmd |-> FALSE, startMsg |-> FALSE]

NoContext ==
  [argoCDApps |-> <<>>, scaledWorkloads |-> <<>>, workloadInfoByNS |-> <<>>]

NoReader == [held |-> FALSE, fresh |-> TRUE, dirty |-> FALSE, result |-> <<>>]

NoPlan == [made |-> FALSE, Items |-> <<>>, resp |-> <<>>, calls |-> {}]

NoInput == [kind |-> "none", name |-> <<>>, mib |-> 0]

NoOutput == [returned |-> FALSE, namespace |-> <<>>, pvcName |-> <<>>,
             CapacityGi |-> 0]

\* the lock is free and no goroutine is followed through migratePVC
NoMutex == [holder |-> 0, at |-> <<>>]

\* nobody reads the statuses, no plan was generated, no function is applied
\* on its own
InitAux ==
  /\ reader = NoReader
  /\ plan = NoPlan
  /\ input = NoInput
  /\ output = NoOutput
  /\ mu = NoMutex

\* The engine alone: constructed by New and driven by Run, no command.
InitNoCmd ==
  /\ InitAux
  /\ cmdpc = "engine"
  /\ flags = [scaleMode |-> "auto", planOnly |-> FALSE, skipArgoCD |-> FALSE]
  /\ replicas = <<>>
  /\ autoSync = <<>>
  /\ allPVCs = <<>>
  /\ mc = NoContext
  /\ idx = 0
  /\ cmdlog = {}
  /\ ui = NoModel
  /\ result = ""

\* New on a task list of lists
InitOn(lists) ==
  /\ InitNoCmd
  /\ config \in [PVCList : lists,
                 MaxConcurrency : 1..MaxConc,
                 DryRun : BOOLEAN,
                 TargetZone : {TargetZone}]
  /\ statuses = NewStatuses(config.PVCList)
  /\ done = FALSE
  /\ runpc = "idle"
  /\ pc = [i \in DOMAIN config.PVCList |-> "none"]
  /\ local = [i \in DOMAIN config.PVCList |-> NoLocal]
  /\ semaphore = 0
  /\ cancelled = FALSE
  /\ calls = {}
  /\ created = {}
  /\ deleted = {}
  /\ zone \in [Range(config.PVCList) -> Zones]
  /\ runs = 1
  /\ skippedBefore = {}

Init == InitOn(PVCLists)

(***************************************************************************)
(* updateStatus                                                            *)
(***************************************************************************)
\* updateStatus that does not store the progress
updateStatus_KeepProgress(S, pvcName, step, progress, err) ==
  IF pvcName \in DOMAIN S
    THEN [S EXCEPT ![pvcName] =
            [@ EXCEPT !.Step = IF err # NoErr THEN StepFailed ELSE step,
                      !.Error = IF err # NoErr THEN err ELSE @,
                      !.EndTime = IF err # NoErr \/ step = StepDone
                                    THEN TRUE ELSE @]]
    ELSE S

updateStatus(S, pvcName, step, progress, err) ==
  IF pvcName \in DOMAIN S
    THEN [S EXCEPT ![pvcName] =
            [@ EXCEPT !.Step = IF err # NoErr THEN StepFailed ELSE step,
                      !.Progress = progress,
                      !.Error = IF err # NoErr THEN err ELSE @,
                      !.EndTime = IF err # NoErr \/ step = StepDone
                                    THEN TRUE ELSE @]]
    ELSE S

\* Fail that marks every task failed
Fail_AbortSiblings(i, err) ==
  /\ statuses' = [n \in DOMAIN statuses |->
                    updateStatus(statuses, n, StepFailed, 0, err)[n]]
  /\ pc' = [pc EXCEPT ![i] = "return"]

\* Fail that reports the step Failed without the error
Fail_ErrorDropped(i, err) ==
  /\ statuses' = updateStatus(statuses, Name(i), StepFailed, 0, NoErr)
  /\ pc' = [pc EXCEPT ![i] = "return"]

\* A step of goroutine i that ends migratePVC with an error.
Fail(i, err) ==
  /\ statuses' = updateStatus(statuses, Name(i), StepFailed, 0, err)
  /\ pc' = [pc EXCEPT ![i] = "return"]

\* A step of goroutine i that issues the gateway call op and waits in it.
Invoke(i, op) ==
  /\ calls' = calls \cup {<<op, i>>}
  /\ pc' = [pc EXCEPT ![i] = op]

(***************************************************************************)
(* Run                                                                     *)
(***************************************************************************)
RunLaunch ==
  /\ runpc = "idle"
  /\ runpc' = "waiting"
  /\ pc' = [i \in Runners |-> "wait"]

Run ==
  /\ RunLaunch
  /\ UNCHANGED <<config, statuses, done, local, semaphore, cancelled, calls,
                 created, deleted, world>>

\* RunReturn that does not wait for the goroutines
RunReturn_NoWait ==
  /\ runpc = "waiting"
  /\ done' = TRUE
  /\ runpc' = "returned"
  /\ UNCHANGED <<config, statuses, pc, local, semaphore, cancelled, calls,
                 created, deleted, world>>

RunReturn ==
  /\ runpc = "waiting"
  /\ \A i \in Runners : pc[i] = "exit"
  /\ done' = TRUE
  /\ runpc' = "returned"
  /\ UNCHANGED <<config, statuses, pc, local, semaphore, cancelled, calls,
                 created, deleted, world>>

\* Acquire without the capacity of the channel
Acquire_NoGate(i) ==
  /\ pc[i] = "wait"
  /\ semaphore' = semaphore + 1
  /\ pc' = [pc EXCEPT ![i] = "begin"]
  /\ UNCHANGED <<config, statuses, done, runpc, local, cancelled, calls,
                 created, deleted, world>>

\* semaphore <- struct{}{}
Acquire(i) ==
  /\ pc[i] = "wait"
  /\ semaphore < config.MaxConcurrency
  /\ semaphore' = semaphore + 1
  /\ pc' = [pc EXCEPT ![i] = "begin"]
  /\ UNCHANGED <<config, statuses, done, runpc, local, cancelled, calls,
                 created, deleted, world>>

\* Release that keeps the slot
Release_KeepSlot(i) ==
  /\ pc[i] = "return"
  /\ pc' = [pc EXCEPT ![i] = "exit"]
  /\ UNCHANGED <<config, statuses, done, runpc, local, semaphore, cancelled,
                 calls, created, deleted, world>>

\* deferred: <-semaphore, wg.Done()
Release(i) ==
  /\ pc[i] = "return"
  /\ semaphore' = semaphore - 1
  /\ pc' = [pc EXCEPT ![i] = "exit"]
  /\ UNCHANGED <<config, statuses, done, runpc, local, cancelled, calls,
                 created, deleted, world>>

\* Cancel that also marks every task failed
Cancel_FailAll ==
  /\ ~cancelled
  /\ cancelled' = TRUE
  /\ statuses' = [n \in DOMAIN statuses |->
                    updateStatus(statuses, n, StepFailed, 0, ErrCanceled)[n]]
  /\ UNCHANGED <<config, done, runpc, pc, local, semaphore, calls,
                 created, deleted, world>>

\* The context handed to Run is cancelled by its owner.
Cancel ==
  /\ ~cancelled
  /\ cancelled' = TRUE
  /\ UNCHANGED <<config, statuses, done, runpc, pc, local, semaphore, calls,
                 created, deleted, world>>

(***************************************************************************)
(* migratePVC, one action per lock section or gateway call of goroutine i  *)
(***************************************************************************)
\* m.mu.Lock(); status.StartTime = time.Now(); m.mu.Unlock()
migratePVC_Begin(i) ==
  /\ pc[i] = "begin"
  /\ statuses' = [statuses EXCEPT ![Name(i)].StartTime = TRUE]
  /\ pc' = [pc EXCEPT ![i] = "started"]
  /\ UNCHANGED <<config, done, runpc, local, semaphore, cancelled, calls,
                 created, deleted, world>>

\* updateStatus(StepGetInfo), then GetPVCInfo is called
migratePVC_GetInfo(i) ==
  /\ pc[i] = "started"
  /\ statuses' = updateStatus(statuses, Name(i), StepGetInfo, 0, NoErr)
  /\ Invoke(i, "GetPVCInfo")
  /\ UNCHANGED <<config, done, runpc, local, semaphore, cancelled, created,
                 deleted, world>>

\* GetPVCInfo returns; on success the facts are recorded and GetVolumeInfo
\* is called
migratePVC_GetPVCInfoReturn(i) ==
  /\ pc[i] = "GetPVCInfo"
  /\ \/ /\ \E e \in GetPVCInfoErrs : Fail(i, <<"get info", e>>)
        /\ UNCHANGED calls
     \/ /\ statuses' = [statuses EXCEPT ![Name(i)].OldVolumeID = "vol-old",
                                        ![Name(i)].PVName = "pv-old",
                                        ![Name(i)].Capacity = "cap"]
        /\ Invoke(i, "GetVolumeInfo")
  /\ UNCHANGED <<config, done, runpc, local, semaphore, cancelled, created,
                 deleted, world>>

\* GetVolumeInfo returns; on success the current zone is recorded
migratePVC_GetVolumeInfoReturn(i) ==
  /\ pc[i] = "GetVolumeInfo"
  /\ \/ /\ Fail(i, <<"get volume info", "error">>)
        /\ UNCHANGED local
     \/ /\ statuses' = [statuses EXCEPT ![Name(i)].CurrentZone = zone[Name(i)]]
        /\ local' = [local EXCEPT ![i].az = zone[Name(i)]]
        /\ pc' = [pc EXCEPT ![i] = "zoneRecorded"]
  /\ UNCHANGED <<config, done, runpc, semaphore, cancelled, calls, created,
                 deleted, world>>

\* migratePVC_CheckZone without the dry-run rule
migratePVC_CheckZone_NoDryRun(i) ==
  /\ pc[i] = "zoneRecorded"
  /\ IF local[i].az = config.TargetZone
       THEN /\ statuses' = updateStatus(statuses, Name(i), StepSkipped, 100, NoErr)
            /\ pc' = [pc EXCEPT ![i] = "skipEnd"]
            /\ UNCHANGED calls
       ELSE /\ statuses' = updateStatus(statuses, Name(i), StepSnapshot, 0, NoErr)
            /\ Invoke(i, "CreateSnapshot")
  /\ UNCHANGED <<config, done, runpc, local, semaphore, cancelled, created,
                 deleted, world>>

\* migratePVC_CheckZone without the skip rule
migratePVC_CheckZone_NoSkip(i) ==
  /\ pc[i] = "zoneRecorded"
  /\ IF config.DryRun
       THEN /\ statuses' = updateStatus(statuses, Name(i), StepDone, 100, NoErr)
            /\ pc' = [pc EXCEPT ![i] = "return"]
            /\ UNCHANGED calls
       ELSE /\ statuses' = updateStatus(statuses, Name(i), StepSnapshot, 0, NoErr)
            /\ Invoke(i, "CreateSnapshot")
  /\ UNCHANGED <<config, done, runpc, local, semaphore, cancelled, created,
                 deleted, world>>

\* the skip rule, the dry-run rule, or updateStatus(StepSnapshot) and the
\* call of CreateSnapshot
migratePVC_CheckZone(i) ==
  /\ pc[i] = "zoneRecorded"
  /\ IF local[i].az = config.TargetZone
       THEN /\ statuses' = updateStatus(statuses, Name(i), StepSkipped, 100, NoErr)
            /\ pc' = [pc EXCEPT ![i] = "skipEnd"]
            /\ UNCHANGED calls
       ELSE IF config.DryRun
         THEN /\ statuses' = updateStatus(statuses, Name(i), StepDone, 100, NoErr)
              /\ pc' = [pc EXCEPT ![i] = "return"]
              /\ UNCHANGED calls
         ELSE /\ statuses' = updateStatus(statuses, Name(i), StepSnapshot, 0, NoErr)
              /\ Invoke(i, "CreateSnapshot")
  /\ UNCHANGED <<config, done, runpc, local, semaphore, cancelled, created,
                 deleted, world>>

\* skip branch: m.statuses[pvcName].EndTime = time.Now(); return
migratePVC_SkipEnd(i) ==
  /\ pc[i] = "skipEnd"
  /\ statuses' = [statuses EXCEPT ![Name(i)].EndTime = TRUE]
  /\ pc' = [pc EXCEPT ![i] = "return"]
  /\ UNCHANGED <<config, done, runpc, local, semaphore, cancelled, calls,
                 created, deleted, world>>

\* CreateSnapshotReturn that does not record the SnapshotID
migratePVC_CreateSnapshotReturn_NotRecorded(i) ==
  /\ pc[i] = "CreateSnapshot"
  /\ \/ /\ Fail(i, <<"create snapshot", "error">>)
        /\ UNCHANGED created
     \/ /\ created' = created \cup {<<"snapshot", i>>}
        /\ pc' = [pc EXCEPT ![i] = "snapshotRecorded"]
        /\ UNCHANGED statuses
  /\ UNCHANGED <<config, done, runpc, local, semaphore, cancelled, calls,
                 deleted, world>>

\* CreateSnapshot returns; on success the snapshot id is recorded
migratePVC_CreateSnapshotReturn(i) ==
  /\ pc[i] = "CreateSnapshot"
  /\ \/ /\ Fail(i, <<"create snapshot", "error">>)
        /\ UNCHANGED created
     \/ /\ statuses' = [statuses EXCEPT ![Name(i)].SnapshotID = "snap"]
        /\ created' = created \cup {<<"snapshot", i>>}
        /\ pc' = [pc EXCEPT ![i] = "snapshotRecorded"]
  /\ UNCHANGED <<config, done, runpc, local, semaphore, cancelled, calls,
                 deleted, world>>

\* updateStatus(StepWaitSnapshot, 0), then the first GetSnapshotProgress
migratePVC_WaitSnapshot(i) ==
  /\ pc[i] = "snapshotRecorded"
  /\ statuses' = updateStatus(statuses, Name(i), StepWaitSnapshot, 0, NoErr)
  /\ Invoke(i, "GetSnapshotProgress")
  /\ UNCHANGED <<config, done, runpc, local, semaphore, cancelled, created,
                 deleted, world>>

\* GetSnapshotProgress returns; on success the progress is stored
migratePVC_GetSnapshotProgressReturn(i) ==
  /\ pc[i] = "GetSnapshotProgress"
  /\ \/ /\ Fail(i, <<"get snapshot progress", "error">>)
        /\ UNCHANGED local
     \/ \E progress \in SnapshotProgressVals,
           state \in {"pending", "completed", "error"} :
          /\ statuses' = updateStatus(statuses, Name(i), StepWaitSnapshot,
                                      progress, NoErr)
          /\ local' = [local EXCEPT ![i].state = state]
          /\ pc' = [pc EXCEPT ![i] = "snapshotPolled"]
  /\ UNCHANGED <<config, done, runpc, semaphore, cancelled, calls, created,
                 deleted, world>>

\* migratePVC_SnapshotFinal that does not report the step CreateVolume
migratePVC_SnapshotFinal_StepNotReported(i) ==
  /\ pc[i] = "snapshotPolled"
  /\ local[i].state \in {"completed", "error"}
  /\ IF local[i].state = "completed"
       THEN /\ Invoke(i, "CreateVolume")
            /\ UNCHANGED statuses
       ELSE /\ Fail(i, <<"snapshot failed">>)
            /\ UNCHANGED calls
  /\ UNCHANGED <<config, done, runpc, local, semaphore, cancelled, created,
                 deleted, world>>

\* state == "completed": break, updateStatus(StepCreateVolume), CreateVolume
\* is called; state == "error": the task fails
migratePVC_SnapshotFinal(i) ==
  /\ pc[i] = "snapshotPolled"
  /\ local[i].state \in {"completed", "error"}
  /\ IF local[i].state = "completed"
       THEN /\ statuses' = updateStatus(statuses, Name(i), StepCreateVolume, 0, NoErr)
            /\ Invoke(i, "CreateVolume")
       ELSE /\ Fail(i, <<"snapshot failed">>)
            /\ UNCHANGED calls
  /\ UNCHANGED <<config, done, runpc, local, semaphore, cancelled, created,
                 deleted, world>>

\* select: case <-ctx.Done()
migratePVC_SnapshotCancelled(i) ==
  /\ pc[i] = "snapshotPolled"
  /\ local[i].state = "pending"
  /\ cancelled
  /\ Fail(i, ErrCanceled)
  /\ UNCHANGED <<config, done, runpc, local, semaphore, cancelled, calls,
                 created, deleted, world>>

\* the timer taken although the context is cancelled
migratePVC_SnapshotTimer_IgnoreCancel(i) ==
  /\ pc[i] = "snapshotPolled"
  /\ local[i].state = "pending"
  /\ Invoke(i, "GetSnapshotProgress")
  /\ UNCHANGED <<config, statuses, done, runpc, local, semaphore, cancelled,
                 created, deleted, world>>

\* select: case <-time.After(5 * time.Second), the next poll is issued.  The
\* timer is 5 seconds away when the select is entered, so it is taken only
\* while the context is not yet cancelled.
migratePVC_SnapshotTimer(i) ==
  /\ pc[i] = "snapshotPolled"
  /\ local[i].state = "pending"
  /\ ~cancelled
  /\ Invoke(i, "GetSnapshotProgress")
  /\ UNCHANGED <<config, statuses, done, runpc, local, semaphore, cancelled,
                 created, deleted, world>>

\* CreateVolume returns; on success the new volume id is recorded
migratePVC_CreateVolumeReturn(i) ==
  /\ pc[i] = "CreateVolume"
  /\ \/ /\ Fail(i, <<"create volume", "error">>)
        /\ UNCHANGED created
     \/ /\ statuses' = [statuses EXCEPT ![Name(i)].NewVolumeID = "vol-new"]
        /\ created' = created \cup {<<"volume", i>>}
        /\ pc' = [pc EXCEPT ![i] = "volumeRecorded"]
  /\ UNCHANGED <<config, done, runpc, local, semaphore, cancelled, calls,
                 deleted, world>>

\* updateStatus(StepWaitVolume, 0), then the first GetVolumeState
migratePVC_WaitVolume(i) ==
  /\ pc[i] = "volumeRecorded"
  /\ statuses' = updateStatus(statuses, Name(i), StepWaitVolume, 0, NoErr)
  /\ Invoke(i, "GetVolumeState")
  /\ UNCHANGED <<config, done, runpc, local, semaphore, cancelled, created,
                 deleted, world>>

\* GetVolumeState returns
migratePVC_GetVolumeStateReturn(i) ==
  /\ pc[i] = "GetVolumeState"
  /\ \/ /\ Fail(i, <<"get volume state", "error">>)
        /\ UNCHANGED local
     \/ \E state \in {"creating", "in-use", "available", "error"} :
          /\ local' = [local EXCEPT ![i].state = state]
          /\ IF state = "available"
               THEN /\ statuses' = updateStatus(statuses, Name(i), StepWaitVolume, 100, NoErr)
                    /\ pc' = [pc EXCEPT ![i] = "volumeAvailable"]
               ELSE IF state = "error"
                 THEN Fail(i, <<"volume creation failed">>)
                 ELSE /\ statuses' = updateStatus(statuses, Name(i), StepWaitVolume,
                                                  IF state = "creating" THEN 25 ELSE 50,
                                                  NoErr)
                      /\ pc' = [pc EXCEPT ![i] = "volumePolled"]
  /\ UNCHANGED <<config, done, runpc, semaphore, cancelled, calls, created,
                 deleted, world>>

\* select: case <-ctx.Done()
migratePVC_VolumeCancelled(i) ==
  /\ pc[i] = "volumePolled"
  /\ cancelled
  /\ Fail(i, ErrCanceled)
  /\ UNCHANGED <<config, done, runpc, local, semaphore, cancelled, calls,
                 created, deleted, world>>

\* select: case <-time.After(3 * time.Second), the next poll is issued
migratePVC_VolumeTimer(i) ==
  /\ pc[i] = "volumePolled"
  /\ ~cancelled
  /\ Invoke(i, "GetVolumeState")
  /\ UNCHANGED <<config, statuses, done, runpc, local, semaphore, cancelled,
                 created, deleted, world>>

\* migratePVC_CreatePV in the reversed order: cleanup before the new PV
migratePVC_CreatePV_CleanupFirst(i) ==
  /\ pc[i] = "volumeAvailable"
  /\ statuses' = updateStatus(statuses, Name(i), StepCleanup, 0, NoErr)
  /\ Invoke(i, "CleanupResources")
  /\ UNCHANGED <<config, done, runpc, local, semaphore, cancelled, created,
                 deleted, world>>

\* Step 6: updateStatus(StepCreatePV), CreateStaticPV is called
migratePVC_CreatePV(i) ==
  /\ pc[i] = "volumeAvailable"
  /\ statuses' = updateStatus(statuses, Name(i), StepCreatePV, 0, NoErr)
  /\ Invoke(i, "CreateStaticPV")
  /\ UNCHANGED <<config, done, runpc, local, semaphore, cancelled, created,
                 deleted, world>>

\* CreateStaticPV returns; on success Step 7: updateStatus(StepCleanup) and
\* CleanupResources is called
migratePVC_CreateStaticPVReturn(i) ==
  /\ pc[i] = "CreateStaticPV"
  /\ \/ /\ Fail(i, <<"create PV", "error">>)
        /\ UNCHANGED <<calls, created>>
     \/ /\ created' = created \cup {<<"pv", i>>}
        /\ statuses' = updateStatus(statuses, Name(i), StepCleanup, 0, NoErr)
        /\ Invoke(i, "CleanupResources")
  /\ UNCHANGED <<config, done, runpc, local, semaphore, cancelled, deleted, world>>

\* CleanupResources: deletes the old claim and the old PV, ignores every
\* error of the cluster and returns nil
CleanupResources(i) == NoErr

\* CleanupResources returns, the old claim and PV deleted or (an error of
\* the cluster, ignored) not; on success Step 8: updateStatus(StepCreatePVC)
\* and CreateBoundPVC is called
migratePVC_CleanupResourcesReturn(i) ==
  /\ pc[i] = "CleanupResources"
  /\ \E removed \in BOOLEAN : deleted' = IF removed THEN deleted \cup {i} ELSE deleted
  /\ IF CleanupResources(i) # NoErr
       THEN /\ Fail(i, <<"cleanup">> \o CleanupResources(i))
            /\ UNCHANGED calls
       ELSE /\ statuses' = updateStatus(statuses, Name(i), StepCreatePVC, 0, NoErr)
            /\ Invoke(i, "CreateBoundPVC")
  /\ UNCHANGED <<config, done, runpc, local, semaphore, cancelled, created, world>>

\* CreateBoundPVC returns; on success the claim is bound to the new volume,
\* which CreateVolume placed in the target zone, and updateStatus(StepDone, 100)
migratePVC_CreateBoundPVCReturn(i) ==
  /\ pc[i] = "CreateBoundPVC"
  /\ \/ /\ Fail(i, <<"create PVC", "error">>)
        /\ UNCHANGED <<created, zone>>
     \/ /\ created' = created \cup {<<"pvc", i>>}
        /\ zone' = [zone EXCEPT ![Name(i)] = config.TargetZone]
        /\ statuses' = updateStatus(statuses, Name(i), StepDone, 100, NoErr)
        /\ pc' = [pc EXCEPT ![i] = "return"]
  /\ UNCHANGED <<config, done, runpc, local, semaphore, cancelled, calls,
                 deleted, runs, skippedBefore, cmdVars, auxVars>>

migratePVC(i) ==
  \/ migratePVC_Begin(i)
  \/ migratePVC_GetInfo(i)
  \/ migratePVC_GetPVCInfoReturn(i)
  \/ migratePVC_GetVolumeInfoReturn(i)
  \/ migratePVC_CheckZone(i)
  \/ migratePVC_SkipEnd(i)
  \/ migratePVC_CreateSnapshotReturn(i)
  \/ migratePVC_WaitSnapshot(i)
  \/ migratePVC_GetSnapshotProgressReturn(i)
  \/ migratePVC_SnapshotFinal(i)
  \/ migratePVC_SnapshotCancelled(i)
  \/ migratePVC_SnapshotTimer(i)
  \/ migratePVC_CreateVolumeReturn(i)
  \/ migratePVC_WaitVolume(i)
  \/ migratePVC_GetVolumeStateReturn(i)
  \/ migratePVC_VolumeCancelled(i)
  \/ migratePVC_VolumeTimer(i)
  \/ migratePVC_CreatePV(i)
  \/ migratePVC_CreateStaticPVReturn(i)
  \/ migratePVC_CleanupResourcesReturn(i)
  \/ migratePVC_CreateBoundPVCReturn(i)

\* A later invocation: New builds a fresh engine for the same configuration
\* against the cluster and cloud as the previous Run left them.
Rerun ==
  /\ runpc = "returned"
  /\ runs < MaxRuns
  /\ runs' = runs + 1
  /\ skippedBefore' = {n \in DOMAIN statuses : statuses[n].Step = StepSkipped}
  /\ statuses' = NewStatuses(config.PVCList)
  /\ done' = FALSE
  /\ runpc' = "idle"
  /\ pc' = [i \in Runners |-> "none"]
  /\ local' = [i \in Runners |-> NoLocal]
  /\ cancelled' = FALSE
  /\ calls' = {}
  /\ created' = {}
  /\ deleted' = {}
  /\ UNCHANGED <<config, semaphore, zone, cmdVars, auxVars>>

Next ==
  \/ Run
  \/ RunReturn
  \/ Cancel
  \/ \E i \in Runners : Acquire(i)
  \/ \E i \in Runners : migratePVC(i)
  \/ \E i \in Runners : Release(i)

Spec == Init /\ [][Next]_vars

\* Claims of the same short name in two namespaces.
NamespacedLists == {<<NameAX, NameBX>>, <<NameBX, NameAX>>}

InitNamespaced == InitOn(NamespacedLists)

SpecNamespaced == InitNamespaced /\ [][Next]_vars

\* Two engine runs in a row on the same claims.
InitTwice == Init /\ Len(config.PVCList) \in 1..RerunTasks

InitLive == Init /\ Len(config.PVCList) <= LiveTasks

NextTwice == Next \/ Rerun

SpecTwice == InitTwice /\ [][NextTwice]_vars

(***************************************************************************)
(* The migrate command: runMigrate and the functions it calls              *)
(***************************************************************************)
Exit(res) ==
  /\ cmdpc' = "exited"
  /\ result' = res

Goto(p) ==
  /\ cmdpc' = p
  /\ result' = result

\* the failure positions of the ScaleUpWorkloads calls, one per record
FailureChoices(records) ==
  {fs \in [DOMAIN records -> 0..Len(Flatten([k \in DOMAIN records |-> records[k].Workloads]))] :
     \A k \in DOMAIN records : fs[k] <= Len(records[k].Workloads)}

RECURSIVE ScaleUpEach(_, _, _)
ScaleUpEach(records, reps, fs) ==
  IF records = <<>>
    THEN [replicas |-> reps, log |-> {}]
    ELSE LET r == ScaleUpWorkloads(Head(records).Namespace,
                                   Head(records).Workloads, reps, Head(fs))
             rest == ScaleUpEach(Tail(records), r.replicas, Tail(fs))
         IN [replicas |-> rest.replicas, log |-> r.log \cup rest.log]

\* restoreOnError: ScaleUpWorkloads for every record, then
\* EnableArgoCDAutoSync when applications are recorded; errors are dropped
restoreOnError(m, reps, sync, fs, fa) ==
  LET w == ScaleUpEach(m.scaledWorkloads, reps, fs)
      a == IF Len(m.argoCDApps) > 0
             THEN EnableArgoCDAutoSync(m.argoCDApps, sync, fa)
             ELSE [autoSync |-> sync, log |-> {}]
  IN [replicas |-> w.replicas, autoSync |-> a.autoSync, log |-> w.log \cup a.log]

\* a step that runs restoreOnError on context m and cluster reps and returns
\* the error
RestoreAndExit(m, reps, log, err) ==
  \E fs \in FailureChoices(m.scaledWorkloads), fa \in 0..Len(m.argoCDApps) :
    LET c == restoreOnError(m, reps, autoSync, fs, fa) IN
    /\ replicas' = c.replicas
    /\ autoSync' = c.autoSync
    /\ cmdlog' = cmdlog \cup log \cup c.log
    /\ Exit(err)

\* k8s.NewClient
runMigrate_NewClient ==
  /\ cmdpc = "start"
  /\ \/ Goto("discoverPVCs")
     \/ Exit("failed to create Kubernetes client")
  /\ UNCHANGED <<engineVars, flags, replicas, autoSync, allPVCs, mc, idx,
                 cmdlog, ui>>

\* initializeMigration: discoverPVCs and the check for no claims
\* allPVCs of discoverPVCs on cfg.Namespaces = cfgNamespaces when every
\* ListPVCs call succeeds: the listed claims of an entry as they are given,
\* else the claims found in its namespace
allPVCsOf(cfgNamespaces) ==
  LET Found(k) ==
        LET c == cfgNamespaces[k]
            names == IF Len(c.PVCs) > 0 THEN c.PVCs ELSE ClusterPVCs(c.Name)
        IN [j \in DOMAIN names |-> [Namespace |-> c.Name, Name |-> names[j]]]
  IN Flatten([k \in DOMAIN cfgNamespaces |-> Found(k)])

\* pvcListWithNS of createMigrator: "namespace/name" per entry of allPVCs
pvcListWithNSOf(all) ==
  [k \in DOMAIN all |-> all[k].Namespace \o <<"/">> \o all[k].Name]

discoverPVCs ==
  /\ cmdpc = "discoverPVCs"
  /\ \/ /\ \E k \in DOMAIN CfgNamespaces : CfgNamespaces[k].PVCs = <<>>
        /\ Exit("failed to list PVCs")
        /\ UNCHANGED allPVCs
     \/ LET found == allPVCsOf(CfgNamespaces)
        IN IF Len(found) = 0
             THEN Exit("no PVCs found") /\ UNCHANGED allPVCs
             ELSE allPVCs' = found /\ Goto("handleArgoCDApps")
  /\ UNCHANGED <<engineVars, flags, replicas, autoSync, mc, idx, cmdlog, ui>>

\* initializeMigration: handleArgoCDApps; a namespace for which
\* FindArgoCDAppsForNamespace fails is passed over
handleArgoCDApps ==
  /\ cmdpc = "handleArgoCDApps"
  /\ IF flags.skipArgoCD
       THEN /\ Goto("collectWorkloadInfo")
            /\ UNCHANGED <<autoSync, mc, cmdlog>>
       ELSE \E failing \in SUBSET Range(namespaces) :
            LET apps == Flatten([k \in DOMAIN namespaces |->
                                   IF namespaces[k] \in failing
                                     THEN <<>>
                                     ELSE FindArgoCDAppsForNamespace(namespaces[k],
                                                                     autoSync)])
            IN IF Len(apps) > 0 /\ ~config.DryRun
                 THEN \E f \in 0..Len(apps) :
                        LET r == DisableArgoCDAutoSync(apps, autoSync, f) IN
                        /\ autoSync' = r.autoSync
                        /\ cmdlog' = cmdlog \cup r.log
                        /\ IF r.err
                             THEN Exit("failed to disable ArgoCD auto-sync") /\ UNCHANGED mc
                             ELSE /\ mc' = [mc EXCEPT !.argoCDApps = apps]
                                  /\ Goto("collectWorkloadInfo")
                 ELSE /\ mc' = [mc EXCEPT !.argoCDApps = apps]
                      /\ Goto("collectWorkloadInfo")
                      /\ UNCHANGED <<autoSync, cmdlog>>
  /\ UNCHANGED <<engineVars, flags, replicas, allPVCs, idx, ui>>

calculateTotalWorkloads(workloadInfoByNS) ==
  Len(Flatten([k \in DOMAIN namespaces |-> workloadInfoByNS[namespaces[k]]]))

\* initializeMigration: collectWorkloadInfo; then runMigrate chooses
\* handleWorkloadScaling or goes on to the AWS client
collectWorkloadInfo ==
  /\ cmdpc = "collectWorkloadInfo"
  /\ \/ LET info == [ns \in Range(namespaces) |-> GetWorkloadStatus(ns, replicas)] IN
        /\ mc' = [mc EXCEPT !.workloadInfoByNS = info]
        /\ idx' = 1
        /\ Goto(IF calculateTotalWorkloads(info) > 0 /\ ~config.DryRun
                  THEN IF flags.scaleMode = "manual"
                         THEN "handleManualScaling" ELSE "handleAutoScaling"
                  ELSE "NewEC2Client")
        /\ UNCHANGED <<autoSync, cmdlog>>
     \/ /\ IF Len(mc.argoCDApps) > 0 /\ ~config.DryRun
             THEN \E f \in 0..Len(mc.argoCDApps) :
                    LET r == EnableArgoCDAutoSync(mc.argoCDApps, autoSync, f) IN
                    /\ autoSync' = r.autoSync
                    /\ cmdlog' = cmdlog \cup r.log
             ELSE UNCHANGED <<autoSync, cmdlog>>
        /\ Exit("failed to check workload status")
        /\ UNCHANGED <<mc, idx>>
  /\ UNCHANGED <<engineVars, flags, replicas, allPVCs, ui>>

\* WaitForWorkloadsScaledDown has returned nil for the namespace
Waited(ns) == <<"Waited", [Namespace |-> ns]>>

\* handleAutoScaling that goes on when the wait for the pods has failed
handleAutoScaling_WaitIgnored ==
  /\ cmdpc = "handleAutoScaling"
  /\ LET ns == namespaces[idx]
         next == IF idx = Len(namespaces) THEN "NewEC2Client" ELSE "handleAutoScaling"
     IN
     IF Len(mc.workloadInfoByNS[ns]) = 0
       THEN /\ idx' = idx + 1
            /\ Goto(next)
            /\ UNCHANGED <<replicas, autoSync, mc, cmdlog>>
       ELSE \E f \in ScaleDownFailures(ns, replicas) :
              LET r == ScaleDownWorkloads(ns, replicas, f)
                  m2 == [mc EXCEPT !.scaledWorkloads =
                           Append(@, [Namespace |-> ns, Workloads |-> r.workloads])]
              IN
              IF r.err
                THEN /\ RestoreAndExit(mc, r.replicas, r.log,
                                       "failed to scale down workloads")
                     /\ UNCHANGED <<mc, idx>>
                ELSE /\ replicas' = r.replicas
                     /\ \E waited \in BOOLEAN :
                          cmdlog' = cmdlog \cup r.log
                                      \cup (IF waited THEN {Waited(ns)} ELSE {})
                     /\ mc' = m2
                     /\ idx' = idx + 1
                     /\ Goto(next)
                     /\ UNCHANGED autoSync
  /\ UNCHANGED <<engineVars, flags, allPVCs, ui>>

\* handleAutoScaling, one namespace of the loop per step
handleAutoScaling ==
  /\ cmdpc = "handleAutoScaling"
  /\ LET ns == namespaces[idx]
         next == IF idx = Len(namespaces) THEN "NewEC2Client" ELSE "handleAutoScaling"
     IN
     IF Len(mc.workloadInfoByNS[ns]) = 0
       THEN /\ idx' = idx + 1
            /\ Goto(next)
            /\ UNCHANGED <<replicas, autoSync, mc, cmdlog>>
       ELSE \E f \in ScaleDownFailures(ns, replicas) :
              LET r == ScaleDownWorkloads(ns, replicas, f)
                  m2 == [mc EXCEPT !.scaledWorkloads =
                           Append(@, [Namespace |-> ns, Workloads |-> r.workloads])]
              IN
              IF r.err
                THEN /\ RestoreAndExit(mc, r.replicas, r.log,
                                       "failed to scale down workloads")
                     /\ UNCHANGED <<mc, idx>>
                ELSE \/ /\ replicas' = r.replicas
                        /\ cmdlog' = cmdlog \cup r.log \cup {Waited(ns)}
                        /\ mc' = m2
                        /\ idx' = idx + 1
                        /\ Goto(next)
                        /\ UNCHANGED autoSync
                     \/ /\ RestoreAndExit(m2, r.replicas, r.log,
                                          "failed waiting for pods to terminate")
                        /\ mc' = m2
                        /\ UNCHANGED idx
  /\ UNCHANGED <<engineVars, flags, allPVCs, ui>>

Orders(S) ==
  {o \in [1..Cardinality(S) -> S] : \A j, k \in DOMAIN o : o[j] = o[k] => j = k}

\* handleManualScaling: the user quits, or answers after having scaled the
\* workloads down or not; the workloads are recorded in the order of the
\* map iteration; then the wait for the pods of each namespace
handleManualScaling ==
  /\ cmdpc = "handleManualScaling"
  /\ \/ /\ IF Len(mc.argoCDApps) > 0
             THEN \E f \in 0..Len(mc.argoCDApps) :
                    LET r == EnableArgoCDAutoSync(mc.argoCDApps, autoSync, f) IN
                    /\ autoSync' = r.autoSync
                    /\ cmdlog' = cmdlog \cup r.log
             ELSE UNCHANGED <<autoSync, cmdlog>>
        /\ Exit("migration cancelled by user")
        /\ UNCHANGED <<replicas, mc>>
     \/ \E userScaled \in BOOLEAN,
           order \in Orders({ns \in Range(namespaces) : Len(mc.workloadInfoByNS[ns]) > 0}) :
          /\ replicas' = IF userScaled THEN [w \in DOMAIN replicas |-> 0] ELSE replicas
          /\ mc' = [mc EXCEPT !.scaledWorkloads =
                      @ \o [k \in DOMAIN order |->
                              [Namespace |-> order[k],
                               Workloads |-> mc.workloadInfoByNS[order[k]]]]]
          /\ \/ /\ Goto("NewEC2Client")
                /\ cmdlog' = cmdlog \cup {Waited(order[k]) : k \in DOMAIN order}
                /\ UNCHANGED autoSync
             \/ /\ IF Len(mc.argoCDApps) > 0
                     THEN \E f \in 0..Len(mc.argoCDApps) :
                            LET r == EnableArgoCDAutoSync(mc.argoCDApps, autoSync, f) IN
                            /\ autoSync' = r.autoSync
                            /\ cmdlog' = cmdlog \cup r.log
                     ELSE UNCHANGED <<autoSync, cmdlog>>
                /\ Exit("workloads not scaled down")
  /\ UNCHANGED <<engineVars, flags, allPVCs, idx, ui>>

\* aws.NewEC2Client
runMigrate_NewEC2Client ==
  /\ cmdpc = "NewEC2Client"
  /\ \/ /\ Goto("createMigrator")
        /\ UNCHANGED <<replicas, autoSync, cmdlog>>
     \/ RestoreAndExit(mc, replicas, {}, "failed to create AWS EC2 client")
  /\ UNCHANGED <<engineVars, flags, allPVCs, mc, idx, ui>>

\* createMigrator (migrator.New), then plan-only mode or ui.NewModel
createMigrator ==
  /\ cmdpc = "createMigrator"
  /\ LET pvcListWithNS == pvcListWithNSOf(allPVCs)
     IN /\ config' = [config EXCEPT !.PVCList = pvcListWithNS]
        /\ statuses' = NewStatuses(pvcListWithNS)
        /\ pc' = [i \in DOMAIN pvcListWithNS |-> "none"]
        /\ local' = [i \in DOMAIN pvcListWithNS |-> NoLocal]
  /\ IF flags.planOnly
       THEN Goto("handlePlanMode") /\ UNCHANGED ui
       ELSE Goto("ui") /\ ui' = [NoModel EXCEPT !.generatingPlan = TRUE]
  /\ UNCHANGED <<done, runpc, semaphore, cancelled, calls, created, deleted,
                 zone, runs, skippedBefore, auxVars>>
  /\ UNCHANGED <<flags, replicas, autoSync, allPVCs, mc, idx, cmdlog>>

\* handlePlanMode: the plan is generated and printed, runMigrate returns nil
handlePlanMode ==
  /\ cmdpc = "handlePlanMode"
  /\ Exit("nil")
  /\ UNCHANGED <<engineVars, flags, replicas, autoSync, allPVCs, mc, idx,
                 cmdlog, ui>>

(***************************************************************************)
(* ui.Model.Update while the program of runMigrationUI runs                *)
(***************************************************************************)
\* planReadyMsg{plan, err}
planReadyMsg(err) ==
  /\ cmdpc = "ui"
  /\ ui' = [ui EXCEPT !.generatingPlan = FALSE, !.planError = err]
  /\ UNCHANGED <<engineVars, cmdpc, flags, replicas, autoSync, allPVCs, mc,
                 idx, cmdlog, result>>

\* the planReadyMsg of generatePlanCmd, once: GeneratePlan returns no error
Update_planReadyMsg ==
  /\ ui.generatingPlan
  /\ planReadyMsg(NoErr)

\* "enter", "y" that confirms whatever the state of the plan
Update_KeyEnter_PlanNotChecked ==
  /\ cmdpc = "ui"
  /\ ~ui.confirmed
  /\ ui' = [ui EXCEPT !.confirmed = TRUE, !.cmd = TRUE]
  /\ UNCHANGED <<engineVars, cmdpc, flags, replicas, autoSync, allPVCs, mc,
                 idx, cmdlog, result>>

\* "enter", "y": confirms once the plan is there without error and hands
\* the startMigration command to the program
Update_KeyEnter ==
  /\ cmdpc = "ui"
  /\ ~ui.confirmed
  /\ ~ui.generatingPlan
  /\ ui.planError = NoErr
  /\ ui' = [ui EXCEPT !.confirmed = TRUE, !.cmd = TRUE]
  /\ UNCHANGED <<engineVars, cmdpc, flags, replicas, autoSync, allPVCs, mc,
                 idx, cmdlog, result>>

\* the startMigration command: go m.migrator.Run(m.ctx); return startMsg{}
startMigration ==
  /\ cmdpc # "exited"
  /\ ui.cmd
  /\ RunLaunch
  /\ ui' = [ui EXCEPT !.cmd = FALSE, !.startMsg = TRUE]
  /\ UNCHANGED <<config, statuses, done, local, semaphore, cancelled, calls,
                 created, deleted, zone, runs, skippedBefore, auxVars>>
  /\ UNCHANGED <<cmdpc, flags, replicas, autoSync, allPVCs, mc, idx, cmdlog,
                 result>>

\* startMsg
Update_startMsg ==
  /\ cmdpc = "ui"
  /\ ui.startMsg
  /\ ui' = [ui EXCEPT !.startMsg = FALSE, !.started = TRUE]
  /\ UNCHANGED <<engineVars, cmdpc, flags, replicas, autoSync, allPVCs, mc,
                 idx, cmdlog, result>>

\* "ctrl+c", "q": m.cancel() and tea.Quit
Update_KeyQuit ==
  /\ cmdpc = "ui"
  /\ ui' = [ui EXCEPT !.quitting = TRUE]
  /\ cancelled' = TRUE
  /\ Goto("summary")
  /\ UNCHANGED <<config, statuses, done, runpc, pc, local, semaphore, calls,
                 created, deleted, zone, runs, skippedBefore, auxVars>>
  /\ UNCHANGED <<flags, replicas, autoSync, allPVCs, mc, idx, cmdlog>>

\* "n" before the confirmation: tea.Quit
Update_KeyN ==
  /\ cmdpc = "ui"
  /\ ~ui.confirmed
  /\ ui' = [ui EXCEPT !.quitting = TRUE]
  /\ Goto("summary")
  /\ UNCHANGED <<engineVars, flags, replicas, autoSync, allPVCs, mc, idx,
                 cmdlog>>

\* tickMsg with started and IsDone(), then doneMsg: tea.Quit
Update_doneMsg ==
  /\ cmdpc = "ui"
  /\ ui.started
  /\ done
  /\ Goto("summary")
  /\ UNCHANGED <<engineVars, flags, replicas, autoSync, allPVCs, mc, idx,
                 cmdlog, ui>>

\* runMigrationUI returns an error: restoreOnError and return
runMigrationUI_Error ==
  /\ cmdpc = "ui"
  /\ RestoreAndExit(mc, replicas, {}, "UI error")
  /\ UNCHANGED <<engineVars, flags, allPVCs, mc, idx, ui>>

\* HasErrors: GetStatuses shows a Failed task
HasErrors == \E n \in DOMAIN statuses : statuses[n].Step = StepFailed

\* runMigrate after the UI: PrintSummary, os.Exit(1) if HasErrors
runMigrate_Summary ==
  /\ cmdpc = "summary"
  /\ IF HasErrors
       THEN Exit("exit1") /\ UNCHANGED idx
       ELSE Goto("restoreWorkloads") /\ idx' = 1
  /\ UNCHANGED <<engineVars, flags, replicas, autoSync, allPVCs, mc, cmdlog,
                 ui>>

\* restoreWorkloads, one record of the loop per step
restoreWorkloads ==
  /\ cmdpc = "restoreWorkloads"
  /\ IF Len(mc.scaledWorkloads) = 0 \/ config.DryRun
       THEN /\ Goto("restoreArgoCDAutoSync")
            /\ UNCHANGED <<replicas, cmdlog, idx>>
       ELSE \E f \in 0..Len(mc.scaledWorkloads[idx].Workloads) :
              LET sw == mc.scaledWorkloads[idx]
                  r == ScaleUpWorkloads(sw.Namespace, sw.Workloads, replicas, f)
              IN /\ replicas' = r.replicas
                 /\ cmdlog' = cmdlog \cup r.log
                 /\ idx' = idx + 1
                 /\ Goto(IF idx = Len(mc.scaledWorkloads)
                           THEN "restoreArgoCDAutoSync" ELSE "restoreWorkloads")
  /\ UNCHANGED <<engineVars, flags, autoSync, allPVCs, mc, ui>>

\* restoreArgoCDAutoSync, then runMigrate returns nil
restoreArgoCDAutoSync ==
  /\ cmdpc = "restoreArgoCDAutoSync"
  /\ IF Len(mc.argoCDApps) = 0 \/ config.DryRun
       THEN UNCHANGED <<autoSync, cmdlog>>
       ELSE \E f \in 0..Len(mc.argoCDApps) :
              LET r == EnableArgoCDAutoSync(mc.argoCDApps, autoSync, f) IN
              /\ autoSync' = r.autoSync
              /\ cmdlog' = cmdlog \cup r.log
  /\ Exit("nil")
  /\ UNCHANGED <<engineVars, flags, replicas, allPVCs, mc, idx, ui>>

\* the names createMigrator can build
CmdClaimNames ==
  UNION {{CfgNamespaces[k].Name \o <<"/">> \o n :
            n \in Range(CfgNamespaces[k].PVCs) \cup Range(ClusterPVCs(CfgNamespaces[k].Name))} :
         k \in DOMAIN CfgNamespaces}

\* Config.Validate, for the fields of the model
Validate(c) ==
  IF c.TargetZone = "" THEN <<"targetZone is required">>
  ELSE IF c.MaxConcurrency < 1 THEN <<"maxConcurrency must be at least 1">>
  ELSE NoErr

\* loadConfig takes maxConcurrency from the configuration file or from
\* --concurrency as it is given; it does not call Validate
InitCmd ==
  /\ config \in [PVCList : {<<>>},
                 MaxConcurrency : 0..MaxConc,
                 DryRun : BOOLEAN,
                 TargetZone : {TargetZone}]
  /\ InitAux
  /\ statuses = NewStatuses(<<>>)
  /\ done = FALSE
  /\ runpc = "idle"
  /\ pc = <<>>
  /\ local = <<>>
  /\ semaphore = 0
  /\ cancelled = FALSE
  /\ calls = {}
  /\ created = {}
  /\ deleted = {}
  /\ zone \in [CmdClaimNames -> Zones]
  /\ runs = 1
  /\ skippedBefore = {}
  /\ cmdpc = "start"
  /\ flags \in [scaleMode : {"auto", "manual"}, planOnly : BOOLEAN,
                skipArgoCD : BOOLEAN]
  /\ replicas \in [Workloads -> 0..MaxReplicas]
  /\ autoSync = [a \in {AppKey(ArgoApps[k]) : k \in DOMAIN ArgoApps} |->
                   ArgoApps[CHOOSE k \in DOMAIN ArgoApps : AppKey(ArgoApps[k]) = a].policy]
  /\ allPVCs = <<>>
  /\ mc = NoContext
  /\ idx = 0
  /\ cmdlog = {}
  /\ ui = NoModel
  /\ result = ""

NextCmd ==
  \/ runMigrate_NewClient
  \/ discoverPVCs
  \/ handleArgoCDApps
  \/ collectWorkloadInfo
  \/ handleAutoScaling
  \/ handleManualScaling
  \/ runMigrate_NewEC2Client
  \/ createMigrator
  \/ handlePlanMode
  \/ Update_planReadyMsg
  \/ Update_KeyEnter
  \/ startMigration
  \/ Update_startMsg
  \/ Update_KeyQuit
  \/ Update_KeyN
  \/ Update_doneMsg
  \/ runMigrationUI_Error
  \/ runMigrate_Summary
  \/ restoreWorkloads
  \/ restoreArgoCDAutoSync
  \/ (cmdpc # "exited" /\ RunReturn)
  \/ \E i \in Runners : cmdpc # "exited" /\ Acquire(i)
  \/ \E i \in Runners : cmdpc # "exited" /\ migratePVC(i)
  \/ \E i \in Runners : cmdpc # "exited" /\ Release(i)

SpecCmd == InitCmd /\ [][NextCmd]_vars

(***************************************************************************)
(* The interface alone: a Model made by NewModel on an engine, and Update  *)
(* on any sequence of messages (a planReadyMsg may carry an error and may  *)
(* come at any time), until the program quits.                             *)
(***************************************************************************)
ErrPlan == <<"plan generation failed">>

Update_AnyPlanReadyMsg == \E err \in {NoErr, ErrPlan} : planReadyMsg(err)

InitUI ==
  /\ InitAux
  /\ config \in [PVCList : {SubSeq(TaskUniverse, 1, UITasks)},
                 MaxConcurrency : {1},
                 DryRun : BOOLEAN,
                 TargetZone : {TargetZone}]
  /\ statuses = NewStatuses(config.PVCList)
  /\ done = FALSE
  /\ runpc = "idle"
  /\ pc = [i \in DOMAIN config.PVCList |-> "none"]
  /\ local = [i \in DOMAIN config.PVCList |-> NoLocal]
  /\ semaphore = 0
  /\ cancelled = FALSE
  /\ calls = {}
  /\ created = {}
  /\ deleted = {}
  /\ zone \in [Range(config.PVCList) -> Zones]
  /\ runs = 1
  /\ skippedBefore = {}
  /\ cmdpc = "ui"
  /\ flags = [scaleMode |-> "auto", planOnly |-> FALSE, skipArgoCD |-> FALSE]
  /\ replicas = <<>>
  /\ autoSync = <<>>
  /\ allPVCs = <<>>
  /\ mc = NoContext
  /\ idx = 0
  /\ cmdlog = {}
  /\ ui = [NoModel EXCEPT !.generatingPlan = TRUE]
  /\ result = ""

NextUI ==
  \/ Update_AnyPlanReadyMsg
  \/ Update_KeyEnter
  \/ startMigration
  \/ Update_startMsg
  \/ Update_KeyQuit
  \/ Update_KeyN
  \/ Update_doneMsg
  \/ RunReturn
  \/ \E i \in Runners : Acquire(i)
  \/ \E i \in Runners : migratePVC(i)
  \/ \E i \in Runners : Release(i)

SpecUI == InitUI /\ [][NextUI]_vars

(***************************************************************************)
(* GeneratePlan                                                            *)
(***************************************************************************)
PlanActionMigrate == "Migrate"
PlanActionSkip == "Skip"
PlanActionError == "Error"

\* what GetPVCInfo and GetVolumeInfo answer for one task of the plan
PlanResponses == [info : {"ok"} \cup GetPVCInfoErrs, vol : {"ok", "error"}]

\* the item before any gateway call; Action has its zero value
NewPlanItem(pvcName) ==
  [Name |-> pvcName,
   Namespace |-> ParsePVCName(pvcName).namespace,
   PVCName |-> ParsePVCName(pvcName).pvcName,
   PVName |-> "",
   VolumeID |-> "",
   Capacity |-> "",
   CurrentZone |-> "",
   TargetZone |-> config.TargetZone,
   Action |-> PlanActionMigrate,
   Reason |-> <<>>]

\* PlanItem that leaves the Action of a failed read at its zero value
PlanItem_ErrorKeepsAction(pvcName, r, az) ==
  IF r.info # "ok"
    THEN [NewPlanItem(pvcName) EXCEPT
            !.Reason = <<"Failed to get PVC info", r.info>>]
    ELSE LET item == [NewPlanItem(pvcName) EXCEPT !.PVName = "pv-old",
                                                  !.VolumeID = "vol-old",
                                                  !.Capacity = "cap"]
         IN IF r.vol # "ok"
              THEN [item EXCEPT !.Reason = <<"Failed to get volume info", r.vol>>]
              ELSE IF az = config.TargetZone
                THEN [item EXCEPT !.CurrentZone = az,
                                  !.Action = PlanActionSkip,
                                  !.Reason = <<"Already in target zone">>]
                ELSE [item EXCEPT !.CurrentZone = az,
                                  !.Action = PlanActionMigrate]

\* the body of the loop of GeneratePlan for one task: r is what the two
\* reads answer, az the zone GetVolumeInfo reports
PlanItem(pvcName, r, az) ==
  IF r.info # "ok"
    THEN [NewPlanItem(pvcName) EXCEPT
            !.Action = PlanActionError,
            !.Reason = <<"Failed to get PVC info", r.info>>]
    ELSE LET item == [NewPlanItem(pvcName) EXCEPT !.PVName = "pv-old",
                                                  !.VolumeID = "vol-old",
                                                  !.Capacity = "cap"]
         IN IF r.vol # "ok"
              THEN [item EXCEPT !.Action = PlanActionError,
                                !.Reason = <<"Failed to get volume info", r.vol>>]
              ELSE IF az = config.TargetZone
                THEN [item EXCEPT !.CurrentZone = az,
                                  !.Action = PlanActionSkip,
                                  !.Reason = <<"Already in target zone">>]
                ELSE [item EXCEPT !.CurrentZone = az,
                                  !.Action = PlanActionMigrate]

\* for _, pvcName := range m.config.PVCList { ...; append(plan.Items, item) }
RECURSIVE GeneratePlanLoop(_, _, _)
GeneratePlanLoop(items, k, resp) ==
  IF k > Len(config.PVCList)
    THEN items
    ELSE GeneratePlanLoop(
           Append(items, PlanItem(config.PVCList[k], resp[k],
                                  zone[config.PVCList[k]])),
           k + 1, resp)

\* the gateway operations GeneratePlan invokes, with the task position
GeneratePlanCalls(resp) ==
  {<<"GetPVCInfo", k>> : k \in DOMAIN config.PVCList}
    \cup {<<"GetVolumeInfo", k>> :
            k \in {j \in DOMAIN config.PVCList : resp[j].info = "ok"}}

\* what the reads of the plan answered for task k: the read that failed, or
\* the zone
PlanObserved(resp, k) ==
  IF resp[k].info # "ok" THEN "GetPVCInfo failed"
  ELSE IF resp[k].vol # "ok" THEN "GetVolumeInfo failed"
  ELSE zone[config.PVCList[k]]

GeneratePlan(resp) ==
  [made |-> TRUE,
   Items |-> GeneratePlanLoop(<<>>, 1, resp),
   resp |-> [k \in DOMAIN config.PVCList |-> PlanObserved(resp, k)],
   calls |-> GeneratePlanCalls(resp)]

\* GeneratePlan that reports the step it is in, as migratePVC does
GeneratePlanCall_UpdatesStatus ==
  /\ ~plan.made
  /\ \E resp \in [DOMAIN config.PVCList -> PlanResponses] :
       plan' = GeneratePlan(resp)
  /\ statuses' = [n \in DOMAIN statuses |->
                    updateStatus(statuses, n, StepGetInfo, 0, NoErr)[n]]
  /\ UNCHANGED <<config, done, runpc, pc, local, semaphore,
                 cancelled, calls, created, deleted, zone, runs,
                 skippedBefore, cmdVars, reader, input, output, mu>>

\* a call of GeneratePlan, before, during or after Run
GeneratePlanCall ==
  /\ ~plan.made
  /\ \E resp \in [DOMAIN config.PVCList -> PlanResponses] :
       plan' = GeneratePlan(resp)
  /\ UNCHANGED <<config, statuses, done, runpc, pc, local, semaphore,
                 cancelled, calls, created, deleted, zone, runs,
                 skippedBefore, cmdVars, reader, input, output, mu>>

InitPlan == Init /\ Len(config.PVCList) \in 1..PlanTasks

NextPlan == Next \/ GeneratePlanCall

SpecPlan == InitPlan /\ [][NextPlan]_vars

(***************************************************************************)
(* A caller of GetStatuses, concurrent with Run, that changes what it got  *)
(***************************************************************************)
\* GetStatuses: under the read lock, a new map with a copy of every entry
GetStatuses == [k \in DOMAIN statuses |-> statuses[k]]

\* GetStatuses that hands out the stored entries themselves
GetStatusesCall_Alias ==
  /\ reader' = [held |-> TRUE, fresh |-> FALSE, dirty |-> FALSE,
                result |-> GetStatuses]
  /\ UNCHANGED <<config, statuses, done, runpc, pc, local, semaphore,
                 cancelled, calls, created, deleted, zone, runs,
                 skippedBefore, cmdVars, plan, input, output, mu>>

\* the caller calls GetStatuses and holds the result
GetStatusesCall ==
  /\ reader' = [held |-> TRUE, fresh |-> TRUE, dirty |-> FALSE,
                result |-> GetStatuses]
  /\ UNCHANGED <<config, statuses, done, runpc, pc, local, semaphore,
                 cancelled, calls, created, deleted, zone, runs,
                 skippedBefore, cmdVars, plan, input, output, mu>>

\* the caller deletes a key of the map it holds
Reader_Delete(n) ==
  /\ reader.held
  /\ n \in DOMAIN reader.result
  /\ reader' = [reader EXCEPT
                  !.dirty = TRUE,
                  !.result = [k \in DOMAIN reader.result \ {n} |-> reader.result[k]]]
  /\ UNCHANGED <<config, statuses, done, runpc, pc, local, semaphore,
                 cancelled, calls, created, deleted, zone, runs,
                 skippedBefore, cmdVars, plan, input, output, mu>>

\* the caller writes a field through a pointer of the map it holds: the
\* write reaches the stored entry when the pointer is the stored one
Reader_Modify(n) ==
  /\ reader.held
  /\ n \in DOMAIN reader.result
  /\ reader.result[n].Step # StepFailed
  /\ reader' = [reader EXCEPT !.dirty = TRUE,
                              !.result[n].Step = StepFailed]
  /\ statuses' = IF reader.fresh \/ n \notin DOMAIN statuses
                   THEN statuses
                   ELSE [statuses EXCEPT ![n].Step = StepFailed]
  /\ UNCHANGED <<config, done, runpc, pc, local, semaphore,
                 cancelled, calls, created, deleted, zone, runs,
                 skippedBefore, cmdVars, plan, input, output, mu>>

InitReader == Init /\ Len(config.PVCList) \in 1..ReaderTasks

NextReader ==
  \/ Next
  \/ GetStatusesCall
  \/ \E n \in DOMAIN reader.result : Reader_Delete(n)
  \/ \E n \in DOMAIN reader.result : Reader_Modify(n)

SpecReader == InitReader /\ [][NextReader]_vars

(***************************************************************************)
(* Functions applied on their own: ParsePVCName, and the size GetPVCInfo   *)
(* computes for the new volume                                             *)
(***************************************************************************)
\* names over a small alphabet that has the separator
Chars == {"a", "b", "/"}

PureNames == UNION {[1..n -> Chars] : n \in 0..MaxNameLen}

\* Capacities are counted in MiB (a byte count of a few GiB does not fit
\* the integers of the model checker); 1 GiB is 1024 MiB.
MiBPerGiB == 1024

CapacitiesMiB ==
  {g * MiBPerGiB + r : g \in 0..MaxGi, r \in {0, 1, 500, MiBPerGiB - 1}}
    \cup {50 * MiBPerGiB}

\* capacityGi := int32(capacity.Value() / (1024 * 1024 * 1024));
\* if capacityGi < 1 { capacityGi = 1 }
CapacityGi(mib) ==
  LET capacityGi == mib \div MiBPerGiB IN
  IF capacityGi < 1 THEN 1 ELSE capacityGi

ParsePVCNameCall ==
  /\ input.kind = "name"
  /\ ~output.returned
  /\ output' = [output EXCEPT
                  !.returned = TRUE,
                  !.namespace = ParsePVCName(input.name).namespace,
                  !.pvcName = ParsePVCName(input.name).pvcName]
  /\ UNCHANGED <<config, statuses, done, runpc, pc, local, semaphore,
                 cancelled, calls, created, deleted, zone, runs,
                 skippedBefore, cmdVars, reader, plan, input, mu>>

\* the size GetPVCInfo returns for a claim that requests input.mib
GetPVCInfo_CapacityGi ==
  /\ input.kind = "capacity"
  /\ ~output.returned
  /\ output' = [output EXCEPT !.returned = TRUE,
                              !.CapacityGi = CapacityGi(input.mib)]
  /\ UNCHANGED <<config, statuses, done, runpc, pc, local, semaphore,
                 cancelled, calls, created, deleted, zone, runs,
                 skippedBefore, cmdVars, reader, plan, input, mu>>

\* no engine runs and no command; the argument is any name or any capacity
InitPure ==
  /\ config = [PVCList |-> <<>>, MaxConcurrency |-> 1, DryRun |-> FALSE,
               TargetZone |-> TargetZone]
  /\ statuses = NewStatuses(config.PVCList)
  /\ done = FALSE
  /\ runpc = "idle"
  /\ pc = <<>>
  /\ local = <<>>
  /\ semaphore = 0
  /\ cancelled = FALSE
  /\ calls = {}
  /\ created = {}
  /\ deleted = {}
  /\ zone = <<>>
  /\ runs = 1
  /\ skippedBefore = {}
  /\ cmdpc = "engine"
  /\ flags = [scaleMode |-> "auto", planOnly |-> FALSE, skipArgoCD |-> FALSE]
  /\ replicas = <<>>
  /\ autoSync = <<>>
  /\ allPVCs = <<>>
  /\ mc = NoContext
  /\ idx = 0
  /\ cmdlog = {}
  /\ ui = NoModel
  /\ result = ""
  /\ reader = NoReader
  /\ plan = NoPlan
  /\ input \in [kind : {"name"}, name : PureNames, mib : {0}]
                 \cup [kind : {"capacity"}, name : {<<>>}, mib : CapacitiesMiB]
  /\ output = NoOutput
  /\ mu = NoMutex

NextPure == ParsePVCNameCall \/ GetPVCInfo_CapacityGi

SpecPure == InitPure /\ [][NextPure]_vars

(***************************************************************************)
(* discoverPVCs and createMigrator applied on their own to a configuration: *)
(* input.cfg is cfg.Namespaces, as the configuration file or the           *)
(* --namespace flags give it (nothing in loadConfig or LoadFromFile        *)
(* rejects a repeated namespace or a repeated claim name); output is the   *)
(* PVCList the engine is constructed with                                  *)
(***************************************************************************)
CfgPVCNames == {NameX, <<"y">>}

SeqsUpTo(S, n) == UNION {[1..k -> S] : k \in 0..n}

\* the cfg.Namespaces of the configurations
CfgNamespaceLists ==
  SeqsUpTo([Name : {NsA, NsB}, PVCs : SeqsUpTo(CfgPVCNames, MaxCfgPVCs)],
           MaxCfgNamespaces)

discoverPVCsCall ==
  /\ input.kind = "discover"
  /\ ~output.returned
  /\ \/ /\ \E k \in DOMAIN input.cfg : input.cfg[k].PVCs = <<>>
        /\ output' = [returned |-> TRUE, err |-> <<"failed to list PVCs">>,
                      PVCList |-> <<>>]
     \/ /\ Len(allPVCsOf(input.cfg)) = 0
        /\ output' = [returned |-> TRUE, err |-> <<"no PVCs found">>,
                      PVCList |-> <<>>]
     \/ /\ Len(allPVCsOf(input.cfg)) > 0
        /\ output' = [returned |-> TRUE, err |-> NoErr,
                      PVCList |-> pvcListWithNSOf(allPVCsOf(input.cfg))]
  /\ UNCHANGED <<config, statuses, done, runpc, pc, local, semaphore,
                 cancelled, calls, created, deleted, zone, runs,
                 skippedBefore, cmdVars, reader, plan, input, mu>>

InitDiscover ==
  /\ config = [PVCList |-> <<>>, MaxConcurrency |-> 1, DryRun |-> FALSE,
               TargetZone |-> TargetZone]
  /\ statuses = NewStatuses(config.PVCList)
  /\ done = FALSE
  /\ runpc = "idle"
  /\ pc = <<>>
  /\ local = <<>>
  /\ semaphore = 0
  /\ cancelled = FALSE
  /\ calls = {}
  /\ created = {}
  /\ deleted = {}
  /\ zone = <<>>
  /\ runs = 1
  /\ skippedBefore = {}
  /\ cmdpc = "engine"
  /\ flags = [scaleMode |-> "auto", planOnly |-> FALSE, skipArgoCD |-> FALSE]
  /\ replicas = <<>>
  /\ autoSync = <<>>
  /\ allPVCs = <<>>
  /\ mc = NoContext
  /\ idx = 0
  /\ cmdlog = {}
  /\ ui = NoModel
  /\ result = ""
  /\ reader = NoReader
  /\ plan = NoPlan
  /\ input \in [kind : {"discover"}, name : {<<>>}, mib : {0},
                cfg : CfgNamespaceLists]
  /\ output = [returned |-> FALSE, err |-> NoErr, PVCList |-> <<>>]
  /\ mu = NoMutex

NextDiscover == discoverPVCsCall

SpecDiscover == InitDiscover /\ [][NextDiscover]_vars

(***************************************************************************)
(* ScaleDownWorkloads and ScaleUpWorkloads applied on their own to one      *)
(* namespace: input holds the namespace and the replica counts before,      *)
(* output the outcome (TRUE: an error) of each call so far                  *)
(***************************************************************************)
ScaleRecord == mc.scaledWorkloads[1]

ScaleDownCall ==
  /\ output = <<>>
  /\ \E f \in ScaleDownFailures(input.name, replicas) :
       LET r == ScaleDownWorkloads(input.name, replicas, f) IN
       /\ replicas' = r.replicas
       /\ cmdlog' = cmdlog \cup r.log
       /\ mc' = [mc EXCEPT !.scaledWorkloads =
                   <<[Namespace |-> input.name, Workloads |-> r.workloads]>>]
       /\ output' = Append(output, r.err)
  /\ UNCHANGED <<config, statuses, done, runpc, pc, local, semaphore,
                 cancelled, calls, created, deleted, zone, runs,
                 skippedBefore, reader, plan, input, mu>>
  /\ UNCHANGED <<cmdpc, flags, autoSync, allPVCs, idx, ui, result>>

ScaleUpCall ==
  /\ Len(output) \in 1..MaxScaleUps
  /\ \E f \in 0..Len(ScaleRecord.Workloads) :
       LET r == ScaleUpWorkloads(ScaleRecord.Namespace, ScaleRecord.Workloads,
                                 replicas, f) IN
       /\ replicas' = r.replicas
       /\ cmdlog' = cmdlog \cup r.log
       /\ output' = Append(output, r.err)
  /\ UNCHANGED <<config, statuses, done, runpc, pc, local, semaphore,
                 cancelled, calls, created, deleted, zone, runs,
                 skippedBefore, reader, plan, input, mu>>
  /\ UNCHANGED <<cmdpc, flags, autoSync, allPVCs, mc, idx, ui, result>>

InitScale ==
  /\ config = [PVCList |-> <<>>, MaxConcurrency |-> 1, DryRun |-> FALSE,
               TargetZone |-> TargetZone]
  /\ statuses = NewStatuses(config.PVCList)
  /\ done = FALSE
  /\ runpc = "idle"
  /\ pc = <<>>
  /\ local = <<>>
  /\ semaphore = 0
  /\ cancelled = FALSE
  /\ calls = {}
  /\ created = {}
  /\ deleted = {}
  /\ zone = <<>>
  /\ runs = 1
  /\ skippedBefore = {}
  /\ cmdpc = "engine"
  /\ flags = [scaleMode |-> "auto", planOnly |-> FALSE, skipArgoCD |-> FALSE]
  /\ replicas \in [Workloads -> 0..ScaleReplicas]
  /\ autoSync = <<>>
  /\ allPVCs = <<>>
  /\ mc = NoContext
  /\ idx = 0
  /\ cmdlog = {}
  /\ ui = NoModel
  /\ result = ""
  /\ reader = NoReader
  /\ plan = NoPlan
  /\ \E ns \in Range(namespaces) :
       input = [kind |-> "scale", name |-> ns, mib |-> 0, replicas |-> replicas]
  /\ output = <<>>
  /\ mu = NoMutex

NextScale == ScaleDownCall \/ ScaleUpCall

SpecScale == InitScale /\ [][NextScale]_vars

(***************************************************************************)
(* Migrator.mu in migratePVC.  The body of migratePVC as the sequence of   *)
(* its lock operations, gateway calls and branches, in source order; line  *)
(* is the line of migrator.go.  updateStatus holds the lock from its first *)
(* statement to its return (lines 197-198).  A goroutine steps through the *)
(* sequence; a Lock waits until the lock is free.                          *)
(***************************************************************************)
\* m.mu.Lock() ... m.mu.Unlock() in migratePVC
LockSection(from, to) ==
  <<[op |-> "Lock", line |-> from, skip |-> 0],
    [op |-> "Unlock", line |-> to, skip |-> 0]>>

\* m.updateStatus(...) called at line at
updateStatusCall(at) ==
  <<[op |-> "Lock", line |-> at, skip |-> 0],
    [op |-> "Unlock", line |-> at, skip |-> 0]>>

\* a gateway call made with the lock held
GatewayCall_UnderLock(at) ==
  <<[op |-> "Lock", line |-> at, skip |-> 0],
    [op |-> "Call", line |-> at, skip |-> 0],
    [op |-> "Return", line |-> at, skip |-> 0],
    [op |-> "Unlock", line |-> at, skip |-> 0]>>

\* a call of the Cluster or Cloud gateway and its return; an error goes to
\* updateStatus(StepFailed) and return
GatewayCall(at) ==
  <<[op |-> "Call", line |-> at, skip |-> 0],
    [op |-> "Return", line |-> at, skip |-> 0]>>

\* if ... { block of skip operations; return }
IfReturn(at, block) ==
  <<[op |-> "If", line |-> at, skip |-> Len(block) + 1]>> \o block
    \o <<[op |-> "Exit", line |-> at, skip |-> 0]>>

\* the end of a polling loop of back operations: break, fail, or select on
\* ctx.Done() (fail) and the timer (again)
Select(at, back) == <<[op |-> "Select", line |-> at, skip |-> back]>>

migratePVC_Locking ==
  LockSection(237, 242)
    \o updateStatusCall(245) \o GatewayCall(246)
    \o LockSection(252, 256)
    \o GatewayCall(259)
    \o LockSection(265, 267)
    \o IfReturn(269, updateStatusCall(271) \o LockSection(272, 274))
    \o IfReturn(278, updateStatusCall(279))
    \o updateStatusCall(284) \o GatewayCall(285)
    \o LockSection(291, 293)
    \o updateStatusCall(296)
    \o GatewayCall(298) \o updateStatusCall(304) \o Select(314, 4)
    \o updateStatusCall(323) \o GatewayCall(324)
    \o LockSection(330, 332)
    \o updateStatusCall(335)
    \o GatewayCall(337) \o updateStatusCall(356) \o Select(358, 4)
    \o updateStatusCall(367) \o GatewayCall(369)
    \o updateStatusCall(377) \o GatewayCall(378)
    \o updateStatusCall(386) \o GatewayCall(387)
    \o updateStatusCall(392)
    \o <<[op |-> "Exit", line |-> 393, skip |-> 0]>>
    \o updateStatusCall(248)
    \o <<[op |-> "Exit", line |-> 249, skip |-> 0]>>

\* where the failure of a step goes: updateStatus(StepFailed) and return
FailedAt == Len(migratePVC_Locking) - 2

\* the operation goroutine i is at
OpOf(i) == migratePVC_Locking[mu.at[i]]

notMu ==
  <<config, statuses, done, runpc, pc, local, semaphore, cancelled, calls,
    created, deleted, zone, runs, skippedBefore, cmdVars, reader, plan,
    input, output>>

\* Run starts a goroutine per entry of PVCList; each enters migratePVC
Locking_Run ==
  /\ mu.at = <<>>
  /\ mu' = [mu EXCEPT !.at = [i \in Runners |-> 1]]
  /\ UNCHANGED notMu

Locking_Lock(i) ==
  /\ i \in DOMAIN mu.at
  /\ OpOf(i).op = "Lock"
  /\ mu.holder = 0
  /\ mu' = [mu EXCEPT !.holder = i, !.at[i] = @ + 1]
  /\ UNCHANGED notMu

Locking_Unlock(i) ==
  /\ i \in DOMAIN mu.at
  /\ OpOf(i).op = "Unlock"
  /\ mu' = [mu EXCEPT !.holder = 0, !.at[i] = @ + 1]
  /\ UNCHANGED notMu

\* the gateway call is issued
Locking_Call(i) ==
  /\ i \in DOMAIN mu.at
  /\ OpOf(i).op = "Call"
  /\ mu' = [mu EXCEPT !.at[i] = @ + 1]
  /\ UNCHANGED notMu

\* the gateway call returns, with or without an error
Locking_Return(i) ==
  /\ i \in DOMAIN mu.at
  /\ OpOf(i).op = "Return"
  /\ \E err \in BOOLEAN :
       mu' = [mu EXCEPT !.at[i] = IF err THEN FailedAt ELSE @ + 1]
  /\ UNCHANGED notMu

Locking_If(i) ==
  /\ i \in DOMAIN mu.at
  /\ OpOf(i).op = "If"
  /\ \E taken \in BOOLEAN :
       mu' = [mu EXCEPT !.at[i] = IF taken THEN @ + 1 ELSE @ + 1 + OpOf(i).skip]
  /\ UNCHANGED notMu

Locking_Select(i) ==
  /\ i \in DOMAIN mu.at
  /\ OpOf(i).op = "Select"
  /\ \E to \in {mu.at[i] + 1, FailedAt, mu.at[i] - OpOf(i).skip} :
       mu' = [mu EXCEPT !.at[i] = to]
  /\ UNCHANGED notMu

\* the lock protocol does not depend on the configuration but for the
\* number of goroutines
InitLock ==
  /\ Init
  /\ Len(config.PVCList) = LockTasks
  /\ config.MaxConcurrency = MaxConc
  /\ ~config.DryRun

NextLock ==
  \/ Locking_Run
  \/ \E i \in Runners : Locking_Lock(i)
  \/ \E i \in Runners : Locking_Unlock(i)
  \/ \E i \in Runners : Locking_Call(i)
  \/ \E i \in Runners : Locking_Return(i)
  \/ \E i \in Runners : Locking_If(i)
  \/ \E i \in Runners : Locking_Select(i)

SpecLock == InitLock /\ [][NextLock]_vars

(***************************************************************************)
(* Run under fair scheduling: the goroutines and Run keep taking steps,    *)
(* and a poll that is repeated eventually reports a final state or fails.  *)
(***************************************************************************)
Task(i) ==
  /\ i \in Runners
  /\ (Acquire(i) \/ migratePVC(i) \/ Release(i))

SnapshotPollEnds(i) ==
  /\ i \in Runners
  /\ migratePVC_GetSnapshotProgressReturn(i)
  /\ (pc'[i] = "return" \/ local'[i].state # "pending")

VolumePollEnds(i) ==
  /\ i \in Runners
  /\ migratePVC_GetVolumeStateReturn(i)
  /\ pc'[i] # "volumePolled"

Fairness ==
  /\ WF_vars(RunReturn)
  /\ \A i \in 1..LiveTasks :
       /\ WF_vars(Task(i))
       /\ SF_vars(SnapshotPollEnds(i))
       /\ SF_vars(VolumePollEnds(i))

SpecLive == InitLive /\ [][Next]_vars /\ Fairness

(***************************************************************************)
(* Properties                                                              *)
(***************************************************************************)
MutatingOps ==
  {"CreateSnapshot", "CreateVolume", "CleanupResources", "CreateStaticPV",
   "CreateBoundPVC"}

CallsOf(i) == {c[1] : c \in {d \in calls : d[2] = i}}

Terminal(n) == statuses[n].Step \in TerminalSteps

AllTerminal == \A n \in DOMAIN statuses : Terminal(n)

\* goroutine i holds a slot of the semaphore
PastGate(i) == pc[i] \notin {"none", "wait", "exit"}

\* goroutine i is the only one launched for its claim
Sole(i) == \A j \in Runners : Name(j) = Name(i) => j = i

C2_ConcurrencyBound ==
  /\ Cardinality({i \in Runners : PastGate(i)}) <= config.MaxConcurrency
  /\ Cardinality({n \in DOMAIN statuses :
                    statuses[n].Step \notin TerminalSteps \cup {StepPending}})
       <= config.MaxConcurrency

C2_Witness ==
  /\ Cardinality({i \in Runners : PastGate(i)}) = config.MaxConcurrency
  /\ \E i \in Runners : pc[i] = "wait"
  /\ \E i \in Runners : pc[i] = "CreateVolume"

\* C6: a dry run never invokes CreateSnapshot, CreateVolume,
\* CleanupResources, CreateStaticPV or CreateBoundPVC, and so creates and
\* deletes nothing.
C6_DryRunPurity ==
  config.DryRun =>
    /\ \A c \in calls : c[1] \notin MutatingOps
    /\ created = {}
    /\ deleted = {}

C6_Witness ==
  /\ config.DryRun
  /\ \E i \in Runners :
       /\ pc[i] = "exit"
       /\ local[i].az # config.TargetZone
       /\ statuses[Name(i)].Step = StepDone

\* C7 as stated: when a dry run has returned, every task that is not Skipped
\* is Done with progress 100.
C7_Original ==
  (config.DryRun /\ runpc = "returned") =>
    \A n \in DOMAIN statuses :
      statuses[n].Step # StepSkipped =>
        (statuses[n].Step = StepDone /\ statuses[n].Progress = 100)

\* C7 amended: when a dry run has returned, every task is Skipped or Done
\* with progress 100, or Failed with the error of GetPVCInfo or GetVolumeInfo.
C7_DryRunOutcome ==
  (config.DryRun /\ runpc = "returned") =>
    \A n \in DOMAIN statuses :
      \/ statuses[n].Step \in {StepDone, StepSkipped} /\ statuses[n].Progress = 100
      \/ /\ statuses[n].Step = StepFailed
         /\ statuses[n].Error # NoErr
         /\ statuses[n].Error[1] \in {"get info", "get volume info"}

C7_Witness ==
  /\ config.DryRun
  /\ runpc = "returned"
  /\ \E n \in DOMAIN statuses :
       statuses[n].Step = StepDone /\ statuses[n].Progress = 100
  /\ \E n \in DOMAIN statuses : statuses[n].Step = StepFailed

\* C8: a task whose volume is in the target zone makes the two read calls
\* and nothing else and, PVCList entries being unique (it is the only task
\* of its claim), its entry becomes Skipped with progress 100 out of GetInfo
\* and has its EndTime when the task has returned; a claim that ended
\* Skipped in one run and whose reads succeed in the next run ends Skipped
\* again, again with no mutating call.
C8_SkipState ==
  \A i \in Runners :
    /\ (local[i].az = config.TargetZone /\ pc[i] \in {"skipEnd", "return", "exit"})
         => /\ CallsOf(i) = {"GetPVCInfo", "GetVolumeInfo"}
            /\ Sole(i) => /\ statuses[Name(i)].Step = StepSkipped
                           /\ statuses[Name(i)].Progress = 100
                           /\ pc[i] = "exit" => statuses[Name(i)].EndTime
    /\ (Name(i) \in skippedBefore /\ pc[i] = "exit" /\ Sole(i)
          /\ statuses[Name(i)].Error = NoErr)
         => /\ statuses[Name(i)].Step = StepSkipped
            /\ statuses[Name(i)].Progress = 100
            /\ CallsOf(i) \cap MutatingOps = {}

C8_SkipStep ==
  \A i \in Runners :
    (Sole(i) /\ statuses'[Name(i)].Step = StepSkipped
             /\ statuses[Name(i)].Step # StepSkipped)
      => statuses[Name(i)].Step = StepGetInfo

C8_SkipIdempotent == []C8_SkipState /\ [][C8_SkipStep]_vars

C8_Witness ==
  /\ runs = 2
  /\ \E i \in Runners :
       /\ Name(i) \in skippedBefore
       /\ pc[i] = "exit"
       /\ statuses[Name(i)].Step = StepSkipped
       /\ CallsOf(i) = {"GetPVCInfo", "GetVolumeInfo"}

\* C9: the step in which a task fails records the error on the entry of that
\* task, changes no other entry and no other goroutine; and once some task
\* has failed, Run still returns with every task in a terminal step.
C9_FailStep(i) ==
  /\ pc[i] \notin {"return", "exit"}
  /\ pc'[i] = "return"
  /\ statuses'[Name(i)].Step = StepFailed

C9_Frame ==
  \A i \in Runners :
    C9_FailStep(i) =>
      /\ statuses'[Name(i)].Error # NoErr
      /\ statuses'[Name(i)].EndTime
      /\ \A n \in DOMAIN statuses \ {Name(i)} : statuses'[n] = statuses[n]
      /\ \A j \in Runners \ {i} : pc'[j] = pc[j]

C9_FailureIsLocal ==
  /\ [][C9_Frame]_vars
  /\ (\E n \in DOMAIN statuses : statuses[n].Step = StepFailed)
       ~> (runpc = "returned" /\ AllTerminal)

C9_Witness ==
  /\ runpc = "returned"
  /\ \E n, o \in DOMAIN statuses :
       /\ statuses[n].Step = StepFailed
       /\ statuses[n].Error = <<"get info", "is not bound to any PV">>
       /\ statuses[o].Step = StepDone
       /\ statuses[o].Error = NoErr
       /\ ~config.DryRun

\* C10: once Run has been called, eventually every task is in a terminal
\* step and the engine is marked done.
C10_RunTerminates ==
  (runpc = "waiting") ~> (done /\ runpc = "returned" /\ AllTerminal)

C10_Witness ==
  /\ done
  /\ Len(config.PVCList) > config.MaxConcurrency
  /\ \E n, o \in DOMAIN statuses :
       /\ statuses[n].Step = StepFailed
       /\ statuses[n].Error = ErrCanceled
       /\ statuses[o].Step = StepDone
       /\ statuses[o].NewVolumeID # ""

(***************************************************************************)
(* The done flag and the terminal steps                                    *)
(***************************************************************************)
\* IsDone
IsDone == done

\* C11: IsDone() is false before Run is called, and whenever IsDone() is
\* true every task is in step Done, Skipped or Failed.
C11_DoneImpliesTerminal ==
  /\ runpc = "idle" => ~IsDone
  /\ IsDone => AllTerminal

C11_Witness ==
  /\ IsDone
  /\ \E n, o \in DOMAIN statuses :
       /\ statuses[n].Step = StepFailed
       /\ statuses[o].Step = StepDone
  /\ ~config.DryRun

\* C12: within a Run, once the entry of a task (PVCList entries being
\* unique) shows Done, Skipped or Failed, no step changes its Step or its
\* Error again; a cancellation that arrives later leaves them as they are.
C12_Absorbing ==
  \A i \in Runners :
    (Sole(i) /\ Terminal(Name(i)))
      => /\ statuses'[Name(i)].Step = statuses[Name(i)].Step
         /\ statuses'[Name(i)].Error = statuses[Name(i)].Error

C12_TerminalAbsorbing == [][C12_Absorbing]_vars

C12_Witness ==
  /\ cancelled
  /\ runpc = "returned"
  /\ \E i, j \in Runners :
       /\ Sole(i) /\ Sole(j)
       /\ statuses[Name(i)].Step = StepDone
       /\ statuses[Name(i)].Error = NoErr
       /\ statuses[Name(j)].Step = StepFailed
       /\ statuses[Name(j)].Error = ErrCanceled

(***************************************************************************)
(* Cancellation at the suspension points                                   *)
(***************************************************************************)
\* goroutine i is at the select of a wait loop after a poll that reported a
\* state that is not final
AtSuspension(i) ==
  \/ pc[i] = "snapshotPolled" /\ local[i].state = "pending"
  \/ pc[i] = "volumePolled"

C14_Step ==
  \A i \in Runners :
    (AtSuspension(i) /\ cancelled /\ pc'[i] # pc[i])
      => /\ pc'[i] = "return"
         /\ statuses'[Name(i)].Step = StepFailed
         /\ statuses'[Name(i)].Error = ErrCanceled
         /\ calls' = calls

\* C14: the step a task takes at the select of the snapshot or volume wait
\* loop once the context is cancelled ends the task Failed with ctx.Err()
\* and issues no further poll, and the task does take that step.
C14_CancelAtSuspension ==
  /\ [][C14_Step]_vars
  /\ \A i \in 1..LiveTasks :
       (i \in Runners /\ AtSuspension(i) /\ cancelled)
         ~> (i \in Runners /\ pc[i] \in {"return", "exit"})

C14_Witness ==
  /\ cancelled
  /\ \E i \in Runners :
       /\ pc[i] = "return"
       /\ statuses[Name(i)].Step = StepFailed
       /\ statuses[Name(i)].Error = ErrCanceled
       /\ <<"GetSnapshotProgress", i>> \in calls
       /\ <<"CreateVolume", i>> \notin calls

(***************************************************************************)
(* The engine as constructed                                               *)
(***************************************************************************)
\* C25: after New and before Run, the statuses hold exactly one entry per
\* name of PVCList, each in step Pending under its full name, with the
\* namespace and the short name ParsePVCName gives for it, and IsDone is
\* false.
C25_AfterNew ==
  runpc = "idle" =>
    /\ DOMAIN statuses = Range(config.PVCList)
    /\ \A n \in DOMAIN statuses :
         /\ statuses[n].Name = n
         /\ statuses[n].Step = StepPending
         /\ statuses[n].Namespace = ParsePVCName(n).namespace
         /\ statuses[n].PVCName = ParsePVCName(n).pvcName
         /\ statuses[n].Error = NoErr
         /\ ~statuses[n].EndTime
    /\ ~IsDone

C25_Witness ==
  /\ runpc = "idle"
  /\ runs = 2
  /\ \E n \in DOMAIN statuses :
       /\ statuses[n].Namespace = <<"a">>
       /\ statuses[n].PVCName = <<"x">>
       /\ n \in skippedBefore
  /\ Cardinality(DOMAIN statuses) = 2

(***************************************************************************)
(* The order of the steps                                                  *)
(***************************************************************************)
\* the steps of a migration in the order migratePVC reports them
StepOrder ==
  <<StepPending, StepGetInfo, StepSnapshot, StepWaitSnapshot, StepCreateVolume,
    StepWaitVolume, StepCreatePV, StepCleanup, StepCreatePVC, StepDone>>

\* position of a step in the order; 0 for Skipped and Failed
Rank(step) ==
  IF step \in Range(StepOrder)
    THEN CHOOSE k \in DOMAIN StepOrder : StepOrder[k] = step
    ELSE 0

\* the gateway operations of a full migration
MigrationOps ==
  {"GetPVCInfo", "GetVolumeInfo", "CreateSnapshot", "GetSnapshotProgress",
   "CreateVolume", "GetVolumeState", "CreateStaticPV", "CleanupResources",
   "CreateBoundPVC"}

\* the step of the task of goroutine i changes to the next step of the
\* order, or to Failed, or takes one of the two early exits out of GetInfo
C23_Step ==
  \A i \in Runners :
    LET a == statuses[Name(i)].Step
        b == statuses'[Name(i)].Step
    IN (Sole(i) /\ a # b) =>
         \/ b = StepFailed
         \/ a = StepGetInfo /\ b = StepSkipped
         \/ a = StepGetInfo /\ b = StepDone /\ config.DryRun
         \/ a \notin TerminalSteps /\ Rank(b) = Rank(a) + 1

\* the same without the early exits
C23_StepStrict ==
  \A i \in Runners :
    LET a == statuses[Name(i)].Step
        b == statuses'[Name(i)].Step
    IN (Sole(i) /\ a # b) =>
         \/ b = StepFailed
         \/ a \notin TerminalSteps /\ Rank(b) = Rank(a) + 1

C29_FailStep ==
  \A i \in Runners :
    Sole(i) =>
      /\ (pc[i] \in MigrationOps /\ pc'[i] = "return") =>
           \/ statuses'[Name(i)].Step = StepDone
           \/ /\ statuses'[Name(i)].Step = StepFailed
              /\ statuses'[Name(i)].Error # NoErr
              /\ statuses'[Name(i)].EndTime
      /\ statuses[Name(i)].Step = StepFailed =>
           \A op \in MigrationOps : <<op, i>> \in calls' => <<op, i>> \in calls

\* C29: in every state the step of a task is Failed exactly when its Error
\* is set, and then its EndTime is set; a gateway call that fails ends the
\* task Failed with the error, and no gateway call follows for the task.
C29_FailedIffError ==
  /\ [](\A i \in Runners :
         Sole(i) =>
           /\ statuses[Name(i)].Step = StepFailed <=> statuses[Name(i)].Error # NoErr
           /\ statuses[Name(i)].Step = StepFailed => statuses[Name(i)].EndTime)
  /\ [][C29_FailStep]_vars

C29_Witness ==
  \E i, j \in Runners :
    /\ i # j
    /\ Sole(i) /\ Sole(j)
    /\ statuses[Name(i)].Step = StepFailed
    /\ statuses[Name(i)].Error = <<"create PV", "error">>
    /\ <<"CleanupResources", i>> \notin calls
    /\ statuses[Name(j)].Step = StepCreatePVC
    /\ statuses[Name(j)].Error = NoErr

\* CleanupResources returned for goroutine i without having removed the old
\* claim and PV
CleanupFailed(i) ==
  /\ <<"CleanupResources", i>> \in calls
  /\ pc[i] # "CleanupResources"
  /\ i \notin deleted

RunObserved(i) ==
  IF <<"GetVolumeInfo", i>> \notin calls THEN "GetPVCInfo failed"
  ELSE IF statuses[Name(i)].CurrentZone = "" THEN "GetVolumeInfo failed"
  ELSE statuses[Name(i)].CurrentZone

\* C16: the plan has one item per task, in the order of PVCList, with
\* action Error when one of the two reads failed, Skip when both succeeded
\* and the zone is the target zone, Migrate otherwise; and for a task (of a
\* unique entry) whose reads answered in Run what they answered in the plan,
\* the plan says Skip exactly when Run ended the task Skipped.
C16_PlanClassifies ==
  plan.made =>
    /\ Len(plan.Items) = Len(config.PVCList)
    /\ \A k \in DOMAIN plan.Items :
         /\ plan.Items[k].Name = config.PVCList[k]
         /\ plan.Items[k].Action =
              IF plan.resp[k] \in {"GetPVCInfo failed", "GetVolumeInfo failed"}
                THEN PlanActionError
                ELSE IF plan.resp[k] = config.TargetZone
                  THEN PlanActionSkip ELSE PlanActionMigrate
    /\ \A i \in Runners :
         (Sole(i) /\ pc[i] = "exit" /\ RunObserved(i) = plan.resp[i])
           => (plan.Items[i].Action = PlanActionSkip
                 <=> statuses[Name(i)].Step = StepSkipped)

C16_Witness ==
  /\ plan.made
  /\ runpc = "returned"
  /\ \E i, j \in Runners :
       /\ Sole(i) /\ Sole(j)
       /\ RunObserved(i) = plan.resp[i]
       /\ plan.Items[i].Action = PlanActionSkip
       /\ statuses[Name(i)].Step = StepSkipped
       /\ RunObserved(j) = plan.resp[j]
       /\ plan.Items[j].Action = PlanActionError
       /\ statuses[Name(j)].Step = StepFailed

\* C17: GeneratePlan invokes only GetPVCInfo and GetVolumeInfo, and the
\* step in which it runs changes no status entry, not the done flag, and
\* nothing in the cluster or the cloud.
C17_PlanStep ==
  plan' # plan =>
    /\ statuses' = statuses
    /\ done' = done
    /\ calls' = calls
    /\ created' = created
    /\ deleted' = deleted
    /\ zone' = zone

C17_PlanReadOnly ==
  /\ [](\A c \in plan.calls : c[1] \in {"GetPVCInfo", "GetVolumeInfo"})
  /\ [][C17_PlanStep]_vars

C17_Witness ==
  /\ plan.made
  /\ runpc = "waiting"
  /\ \E c \in plan.calls : c[1] = "GetVolumeInfo"
  /\ \E k \in DOMAIN plan.Items : plan.Items[k].Action = PlanActionError
  /\ \E n \in DOMAIN statuses : statuses[n].Step = StepPending
  /\ \E n \in DOMAIN statuses : statuses[n].Step = StepWaitSnapshot

(***************************************************************************)
(* Scaling down and up again                                               *)
(***************************************************************************)
\* the workloads of the namespace that had replicas > 0, with their counts
RunningBefore ==
  {[Kind |-> w.Kind, Name |-> w.Name, Replicas |-> input.replicas[w]] :
     w \in {v \in Workloads : v.Namespace = input.name /\ input.replicas[v] > 0}}

\* C26: a successful ScaleDownWorkloads returns exactly the Deployments and
\* StatefulSets of the namespace that had replicas > 0, each once and with
\* its replica count, and leaves each of them at 0 and everything else as
\* it was; once a ScaleUpWorkloads with that record has succeeded every
\* workload is back at its original replica count, and it still is after
\* ScaleUpWorkloads has been applied again.
C26_ScaleRoundTrip ==
  (input.kind = "scale" /\ Len(output) >= 1 /\ ~output[1]) =>
    /\ Range(ScaleRecord.Workloads) = RunningBefore
    /\ Len(ScaleRecord.Workloads) = Cardinality(RunningBefore)
    /\ Len(output) = 1 =>
         replicas = [w \in Workloads |->
                       IF w.Namespace = input.name THEN 0 ELSE input.replicas[w]]
    /\ (Len(output) >= 2 /\ ~output[Len(output)]) => replicas = input.replicas

C26_Witness ==
  /\ input.kind = "scale"
  /\ output = <<FALSE, FALSE, FALSE>>
  /\ Len(ScaleRecord.Workloads) = 2
  /\ \E w \in Workloads : replicas[w] = 2
  /\ \E w \in Workloads : replicas[w] = 1
  /\ \E w \in Workloads : <<"ScaleDown", w>> \in cmdlog

(***************************************************************************)
(* The command: discovery and pre-flight                                   *)
(***************************************************************************)
Disabled == {a \in DOMAIN autoSync : <<"Disable", a>> \in cmdlog}

ScaledDown == {w \in DOMAIN replicas : <<"ScaleDown", w>> \in cmdlog}

\* C21: when the command ends on a discovery error (the claims or the
\* running workloads could not be listed), no ArgoCD application has had
\* its automated sync disabled and no workload has been scaled.
C21_DiscoveryBeforeMutation ==
  result \in {"failed to list PVCs", "failed to check workload status"}
    => (Disabled = {} /\ ScaledDown = {})

\* ScaleUpWorkloads was called for the recorded namespace
RestoreCalled(sw) ==
  \E j \in DOMAIN sw.Workloads :
    <<"ScaleUpAttempt", Key(sw.Namespace, sw.Workloads[j])>> \in cmdlog

\* C22: when the command has returned the error of a failed wait for the
\* pods to terminate, in automatic or manual scale mode, ScaleUpWorkloads
\* has been called for every namespace recorded as scaled down and
\* EnableArgoCDAutoSync for the disabled applications, and no engine was
\* started: no task has left Pending.
C22_WaitFailureCompensated ==
  result \in {"failed waiting for pods to terminate", "workloads not scaled down"}
    => /\ \A k \in DOMAIN mc.scaledWorkloads : RestoreCalled(mc.scaledWorkloads[k])
       /\ (Disabled # {} => \E a \in Disabled : <<"EnableAttempt", a>> \in cmdlog)
       /\ runpc = "idle"
       /\ \A n \in DOMAIN statuses : statuses[n].Step = StepPending

\* C28: when the command has returned the error of a failed
\* DisableArgoCDAutoSync, the re-enabling of every application that was
\* already disabled has been attempted.
C28_DisableFailureCompensated ==
  result = "failed to disable ArgoCD auto-sync"
    => \A a \in Disabled : <<"EnableAttempt", a>> \in cmdlog

\* C30: in a non-dry-run invocation in automatic scale mode, when a task
\* has left Pending, every workload that was discovered as running has
\* been scaled to zero by ScaleDownWorkloads and recorded, and the wait for
\* the pods of its namespace has returned without error.
C30_PreflightBeforeTasks ==
  ( /\ flags.scaleMode = "auto"
    /\ ~config.DryRun
    /\ \E n \in DOMAIN statuses : statuses[n].Step # StepPending )
  => \A ns \in DOMAIN mc.workloadInfoByNS :
       \A j \in DOMAIN mc.workloadInfoByNS[ns] :
         /\ Key(ns, mc.workloadInfoByNS[ns][j]) \in ScaledDown
         /\ \E k \in DOMAIN mc.scaledWorkloads :
              /\ mc.scaledWorkloads[k].Namespace = ns
              /\ mc.workloadInfoByNS[ns][j] \in Range(mc.scaledWorkloads[k].Workloads)
         /\ Waited(ns) \in cmdlog

C30_Witness ==
  /\ flags.scaleMode = "auto"
  /\ ~config.DryRun
  /\ \E n \in DOMAIN statuses : statuses[n].Step = StepSnapshot
  /\ Waited(NsA) \in cmdlog
  /\ Waited(NsB) \in cmdlog
  /\ Cardinality(ScaledDown) = 3
  /\ \A w \in ScaledDown : replicas[w] = 0

\* C24: every configuration with which the command constructs the engine
\* and starts Run passes Validate: its MaxConcurrency is at least 1.
C24_RunConfigValidated ==
  (cmdpc # "engine" /\ runpc # "idle")
    => (Validate(config) = NoErr /\ config.MaxConcurrency >= 1)

(***************************************************************************)
(* The command in dry-run mode                                             *)
(***************************************************************************)
\* C20: in dry-run mode, on every path of the migrate command, no workload
\* is scaled down or up and no ArgoCD application has its automated sync
\* disabled or re-enabled: the command makes no mutating cluster call (and
\* waits for no pods).
C20_DryRunDiscoveryOnly ==
  config.DryRun => cmdlog = {}

(***************************************************************************)
(* The size of the new volume, and the parsing of names                    *)
(***************************************************************************)
\* the smallest whole number of GiB that holds mib MiB
CeilGiB(mib) == (mib + MiBPerGiB - 1) \div MiBPerGiB

\* C18: the size in GiB requested for the new volume is the capacity of the
\* source claim rounded up to a whole number of GiB, and at least 1.
C18_SizeRoundedUp ==
  (input.kind = "capacity" /\ output.returned)
    => output.CapacityGi = IF CeilGiB(input.mib) < 1 THEN 1
                           ELSE CeilGiB(input.mib)

DefaultNamespace == <<"d", "e", "f", "a", "u", "l", "t">>

\* C19: ParsePVCName returns for every name; for a name without separator
\* it returns ("default", name), otherwise the namespace is the part before
\* the first separator and the claim name everything after it.
C19_ParseTotal ==
  /\ (input.kind = "name" /\ ~output.returned) => ENABLED ParsePVCNameCall
  /\ (input.kind = "name" /\ output.returned) =>
       IF "/" \notin Range(input.name)
         THEN /\ output.namespace = DefaultNamespace
              /\ output.pvcName = input.name
         ELSE /\ "/" \notin Range(output.namespace)
              /\ output.namespace \o <<"/">> \o output.pvcName = input.name

C19_Witness ==
  /\ output.returned
  /\ input.name = <<"a", "/", "a", "/", "b">>
  /\ output.namespace = <<"a">>
  /\ output.pvcName = <<"a", "/", "b">>

(***************************************************************************)
(* What GetStatuses hands out                                              *)
(***************************************************************************)
\* C13: in every map GetStatuses returns, an entry whose Step is Done,
\* Skipped or Failed has its EndTime set.
C13_TerminalHasEndTime ==
  (reader.held /\ ~reader.dirty) =>
    \A n \in DOMAIN reader.result :
      reader.result[n].Step \in TerminalSteps => reader.result[n].EndTime

\* C15: a step in which the caller deletes a key of the returned map or
\* writes a field of a returned status leaves the stored statuses, and so
\* what the next GetStatuses returns, as they were.
C15_ReaderStep == reader'.dirty /\ reader' # reader

C15_IndependentCopies ==
  [][C15_ReaderStep => (statuses' = statuses /\ GetStatuses' = GetStatuses)]_vars

C15_Witness ==
  /\ runpc = "waiting"
  /\ reader.held
  /\ reader.dirty
  /\ \E n \in DOMAIN statuses :
       /\ n \in DOMAIN reader.result
       /\ reader.result[n].Step = StepFailed
       /\ statuses[n].Step = StepWaitVolume

(***************************************************************************)
(* The command: resume after the run, and compensation in pre-flight       *)
(***************************************************************************)
\* ScaleUpWorkloads was called for the record: its first workload was fetched
ScaleUpCalled(sw) ==
  \E j \in DOMAIN sw.Workloads :
    <<"ScaleUpAttempt", Key(sw.Namespace, sw.Workloads[j])>> \in cmdlog

\* EnableArgoCDAutoSync was called for the recorded applications
EnableCalled ==
  \E j \in DOMAIN mc.argoCDApps :
    <<"EnableAttempt", AppKey(mc.argoCDApps[j])>> \in cmdlog

\* C3: in a non-dry-run invocation whose pre-flight recorded scaled
\* workloads or disabled applications and whose Run was launched, when the
\* process has exited ScaleUpWorkloads has been called for every recorded
\* namespace and EnableArgoCDAutoSync for the recorded applications,
\* whether or not a task ended Failed.
C3_ResumeBeforeExit ==
  ( /\ cmdpc = "exited"
    /\ ~config.DryRun
    /\ runpc # "idle"
    /\ (mc.scaledWorkloads # <<>> \/ mc.argoCDApps # <<>>) )
  => /\ \A k \in DOMAIN mc.scaledWorkloads : ScaleUpCalled(mc.scaledWorkloads[k])
     /\ (mc.argoCDApps # <<>> => EnableCalled)

\* C4: when the post-flight resume of a non-dry-run invocation has run to
\* the end, the restore of every recorded workload and of every recorded
\* application has been attempted, whichever of the restores failed.
C4_ResumeAttemptsAll ==
  ( /\ cmdpc = "exited"
    /\ result = "nil"
    /\ ~flags.planOnly
    /\ ~config.DryRun )
  => /\ \A k \in DOMAIN mc.scaledWorkloads :
          \A j \in DOMAIN mc.scaledWorkloads[k].Workloads :
            <<"ScaleUpAttempt", Key(mc.scaledWorkloads[k].Namespace,
                                    mc.scaledWorkloads[k].Workloads[j])>> \in cmdlog
     /\ \A j \in DOMAIN mc.argoCDApps :
          <<"EnableAttempt", AppKey(mc.argoCDApps[j])>> \in cmdlog

\* C5: when the command has returned the error of a failed
\* ScaleDownWorkloads, the restore of every workload that was set to zero
\* replicas, in the failing namespace or an earlier one, has been attempted,
\* and Run was never launched.
C5_ScaleDownCompensated ==
  (cmdpc = "exited" /\ result = "failed to scale down workloads")
  => /\ \A w \in Workloads :
          <<"ScaleDown", w>> \in cmdlog => <<"ScaleUpAttempt", w>> \in cmdlog
     /\ runpc = "idle"

(***************************************************************************)
(* The user's abort in the interface, and the resume that follows          *)
(***************************************************************************)
\* the user aborted with q or ctrl+c: Update cancelled the model's context
Aborted == ui.quitting /\ cancelled

\* C31: when the user has aborted in the interface and the command has
\* ended, in a non-dry-run invocation, ScaleUpWorkloads has been called for
\* every namespace recorded as scaled down and EnableArgoCDAutoSync for the
\* recorded applications: cancelling the run does not cancel the resume.
C31_ResumeAfterAbort ==
  (Aborted /\ cmdpc = "exited" /\ ~config.DryRun)
    => /\ \A k \in DOMAIN mc.scaledWorkloads : RestoreCalled(mc.scaledWorkloads[k])
       /\ (Len(mc.argoCDApps) > 0 =>
             \E k \in DOMAIN mc.argoCDApps :
               <<"EnableAttempt", AppKey(mc.argoCDApps[k])>> \in cmdlog)

\* what the code keeps of it: an abort that leaves no task Failed is
\* followed by the resume calls
ResumeAfterAbortNoFailure ==
  (Aborted /\ cmdpc = "exited" /\ ~config.DryRun /\ result = "nil")
    => /\ \A k \in DOMAIN mc.scaledWorkloads : RestoreCalled(mc.scaledWorkloads[k])
       /\ (Len(mc.argoCDApps) > 0 =>
             \E k \in DOMAIN mc.argoCDApps :
               <<"EnableAttempt", AppKey(mc.argoCDApps[k])>> \in cmdlog)

(***************************************************************************)
(* The launch of Run by the interface                                      *)
(***************************************************************************)
\* Update hands out the startMigration command in this step
CommandIssued == ~ui.cmd /\ ui'.cmd

\* the startMigration command starts Run in this step
RunLaunched == runpc = "idle" /\ runpc' # "idle"

\* C32: for any sequence of messages, Update hands out the startMigration
\* command only on an enter/y key received while the plan has been
\* generated without error and the run is not yet confirmed, and confirms
\* the run with it; Run is launched only by that command; the confirmation
\* is never withdrawn and a launched Run is never launched again. So Run is
\* started at most once, never while the plan is being generated and never
\* on a plan that failed to generate.
C32_RunLaunchedOnceOnPlan ==
  /\ [][CommandIssued =>
          /\ ~ui.confirmed
          /\ ~ui.generatingPlan
          /\ ui.planError = NoErr
          /\ ui'.confirmed]_vars
  /\ [][RunLaunched => (ui.cmd /\ ~ui'.cmd /\ ui.confirmed)]_vars
  /\ [][ui.confirmed => ui'.confirmed]_vars
  /\ [][runpc # "idle" => runpc' # "idle"]_vars

\* Run was launched on a plan generated without error, and a later
\* planReadyMsg carried an error
C32_Witness ==
  /\ runpc # "idle"
  /\ ui.confirmed
  /\ ui.started
  /\ ui.planError = ErrPlan
  /\ \E n \in DOMAIN statuses : statuses[n].Step = StepSnapshot

(***************************************************************************)
(* The resume and the tasks still running                                  *)
(***************************************************************************)
\* a ScaleUpWorkloads or EnableArgoCDAutoSync call is made in this step
ResumeInvoked ==
  \E e \in cmdlog' \ cmdlog : e[1] \in {"ScaleUpAttempt", "EnableAttempt"}

\* no task is in flight: each is Pending or terminal
Quiescent ==
  \A n \in DOMAIN statuses : statuses[n].Step \in {StepPending} \cup TerminalSteps

\* C35: ScaleUpWorkloads and EnableArgoCDAutoSync are invoked only when
\* every task is Pending or terminal, also when the user quits mid-run.
C35_ResumeAfterRun == [][ResumeInvoked => Quiescent]_vars

(***************************************************************************)
(* The plan-only invocation                                                *)
(***************************************************************************)
\* C36: when a plan-only invocation that is not a dry run has returned
\* after handlePlanMode, every workload that was scaled to zero has been
\* scaled up again and every ArgoCD application whose automated sync was
\* disabled has had it re-enabled.
C36_PlanOnlyRestores ==
  (flags.planOnly /\ ~config.DryRun /\ cmdpc = "exited" /\ result = "nil")
    => /\ \A w \in ScaledDown : <<"ScaleUp", w>> \in cmdlog
       /\ \A a \in Disabled : <<"Enable", a>> \in cmdlog

(***************************************************************************)
(* The lock of the status store and the gateway calls                      *)
(***************************************************************************)
\* C33: no goroutine holds the lock of the status store when it issues a
\* gateway call or while the call is in flight.
C33_NoLockAcrossCall ==
  \A i \in DOMAIN mu.at : OpOf(i).op \in {"Call", "Return"} => mu.holder # i

\* a CreateStaticPV call is in flight while another goroutine is inside a
\* lock section
C33_Witness ==
  \E i, j \in DOMAIN mu.at :
    /\ i # j
    /\ OpOf(i).op = "Return"
    /\ OpOf(i).line = 369
    /\ mu.holder = j
    /\ OpOf(j).op = "Unlock"
    /\ OpOf(j).line = 256

(***************************************************************************)
(* The facts recorded in a status entry and its step                       *)
(***************************************************************************)
\* C38: in every status entry the recorded facts are those of the steps
\* passed: from WaitSnapshot to CreatePVC the SnapshotID is recorded; from
\* WaitVolume to CreatePVC, and at Done of a run that is not a dry run, the
\* NewVolumeID is recorded; at Skipped, at Done and from Snapshot to
\* CreatePVC the OldVolumeID and the CurrentZone are recorded.
C38_FactsMatchStep ==
  \A n \in DOMAIN statuses :
    LET s == statuses[n] IN
    /\ s.Step \in {StepWaitSnapshot, StepCreateVolume, StepWaitVolume,
                   StepCreatePV, StepCleanup, StepCreatePVC}
         => s.SnapshotID # ""
    /\ ( \/ s.Step \in {StepWaitVolume, StepCreatePV, StepCleanup, StepCreatePVC}
         \/ (s.Step = StepDone /\ ~config.DryRun) )
         => (s.NewVolumeID # "" /\ s.SnapshotID # "")
    /\ s.Step \in {StepSkipped, StepDone, StepSnapshot, StepWaitSnapshot,
                   StepCreateVolume, StepWaitVolume, StepCreatePV, StepCleanup,
                   StepCreatePVC}
         => (s.OldVolumeID # "" /\ s.CurrentZone # "")

\* one task is Done after a real migration with every fact recorded, and
\* another is creating its claim
C38_Witness ==
  /\ ~config.DryRun
  /\ \E n, o \in DOMAIN statuses :
       /\ statuses[n].Step = StepDone
       /\ statuses[n].NewVolumeID = "vol-new"
       /\ statuses[n].SnapshotID = "snap"
       /\ statuses[n].OldVolumeID = "vol-old"
       /\ statuses[n].CurrentZone # TargetZone
       /\ statuses[o].Step = StepCreatePVC
       /\ statuses[o].NewVolumeID = "vol-new"

(***************************************************************************)
(* Cancellation and the tasks still waiting at the gate                    *)
(***************************************************************************)
\* goroutine i waits for a slot of the semaphore: its task is Pending and
\* has not been admitted
AtGate(i) == i \in Runners /\ Sole(i) /\ pc[i] = "wait"

\* C39: once the context is cancelled, a task that is still waiting at the
\* gate stays Pending for ever and no gateway operation is invoked for it.
C39_PendingStaysAfterCancel ==
  \A i \in 1..MaxTasks :
    []((cancelled /\ AtGate(i))
         => [](i \in Runners =>
                 /\ statuses[Name(i)].Step = StepPending
                 /\ CallsOf(i) = {}))

(***************************************************************************)
(* The names of the static PVs                                             *)
(***************************************************************************)
\* newPVName := shortName + "-static"
newPVName(i) == ParsePVCName(Name(i)).pvcName \o <<"-", "s", "t", "a", "t", "i", "c">>

\* C37: two goroutines that have called CreateStaticPV for different tasks
\* have called it with different PV names.
C37_DistinctPVNames ==
  \A i, j \in Runners :
    ( /\ Name(i) # Name(j)
      /\ <<"CreateStaticPV", i>> \in calls
      /\ <<"CreateStaticPV", j>> \in calls )
    => newPVName(i) # newPVName(j)

(***************************************************************************)
(* The task list the command builds                                        *)
(***************************************************************************)
\* C34: the PVCList the command constructs the engine with, from listed or
\* discovered claims, has pairwise distinct entries: each status entry has
\* one goroutine writing it.
C34_TaskListDistinct ==
  (input.kind = "discover" /\ output.returned)
    => \A j, k \in DOMAIN output.PVCList :
         output.PVCList[j] = output.PVCList[k] => j = k

TypeOK ==
  /\ semaphore \in 0..config.MaxConcurrency
  /\ \A n \in DOMAIN statuses : statuses[n].Progress \in 0..100

====
